---- MODULE Spec2Model ----
(***************************************************************************)
(* Privileged-mode core of the S32G3 bring-up image: the secure-monitor    *)
(* bridge (src/arch/smc.rs), the core-state table (src/arch/mod.rs) and    *)
(* the GICv3 driver with its MPIDR decoding (src/arch/gic.rs).             *)
(*                                                                         *)
(* Number representation.  TLC integers are 32-bit signed, so:             *)
(*   - a u64 that is only compared (SMC function identifiers, SMC result   *)
(*     codes) is written W32(hi, lo): bits 31..16 and bits 15..0, the      *)
(*     upper 32 bits being zero;                                           *)
(*   - MPIDR_EL1 values and masks are 8-byte little-endian tuples;         *)
(*   - SMC arguments, interrupt ids and MMIO addresses are naturals below  *)
(*     2^31.                                                               *)
(***************************************************************************)
EXTENDS Integers, Naturals, Sequences, FiniteSets, TLC

VARIABLES
    CORE_STATES,        \* arch::CORE_STATES: slot -> BOOLEAN
    CORE_BOOT_PARAMS,   \* smc::CORE_BOOT_PARAMS: slot -> [entry_point, context_id]
    pc,                 \* per core: position inside handle_smc
    regs,               \* per core: x0..x3 latched by the SMC trap in progress
    ev,                 \* the last completed operation and its result
    histOn,             \* history: slot -> a CPU_ON for it returned success and
                        \*          the core of that index has not run CPU_OFF since
    lastOn,             \* history: slot -> pair passed to the last successful CPU_ON
    obs,                \* history: per core inside CPU_ON, what AFFINITY_INFO
                        \*          calls for its target returned meanwhile
    reads,              \* history: slot -> how often the core of that index has
                        \*          read its boot parameters since the last
                        \*          successful CPU_ON for it
    resolved,           \* the last MPIDR decoding: its input and its Result
    mmio,               \* the last GIC driver call: its arguments, its Result
                        \*          and the register writes it made
    irq,                \* per core: position inside the IRQ trap and what the
                        \*          trap has done so far
    boot,               \* kernel_init on each core: GIC_INITIALIZED, the GICR_WAKER
                        \*          registers, each core's CPU interface and DAIF.I
    trap,               \* one core taking an exception: its registers, the frame
                        \*          on its stack and the registers at exception entry
    gicregs,            \* the GIC registers the per-interrupt calls write: SPI
                        \*          enable bits and priority bytes, the SGI/PPI
                        \*          frame of one redistributor, and the position of
                        \*          init_sgi_ppi on the core that owns it
    queue               \* one freertos Queue<T> and the core that uses it: its
                        \*          fields, DAIF.I of the core, TICK_COUNT, and the
                        \*          position of the task and of the interrupt
                        \*          handler inside send and receive

smcVars == <<CORE_STATES, CORE_BOOT_PARAMS, pc, regs, ev, histOn, lastOn, obs, reads>>

\* the variables outside the secure-monitor bridge and the per-interrupt calls
laterVars == <<irq, boot, trap>>

gicVars == <<resolved, mmio, laterVars, gicregs, queue>>

vars == <<CORE_STATES, CORE_BOOT_PARAMS, pc, regs, ev, histOn, lastOn, obs, reads,
          resolved, mmio, irq, boot, trap, gicregs, queue>>

----------------------------------------------------------------------------
(* Bounds of the model *)

\* CPU_ON callers pass MaxParam different (entry_point, context_id) pairs
MaxParam == 2

----------------------------------------------------------------------------
(* Words and bytes *)

W32(hi, lo) == <<hi, lo>>

RECURSIVE BitAnd(_, _, _)
\* a & b over the low n bits
BitAnd(a, b, n) ==
    IF n = 0 \/ a = 0 \/ b = 0 THEN 0
    ELSE ((a % 2) * (b % 2)) + 2 * BitAnd(a \div 2, b \div 2, n - 1)

\* u64 & u64 on 8-byte little-endian tuples
And64(a, b) == [i \in 1..8 |-> BitAnd(a[i], b[i], 8)]

\* !u64
Not64(a) == [i \in 1..8 |-> 255 - a[i]]

\* u64 | u64 for masks with disjoint bits
Or64(a, b) == [i \in 1..8 |-> a[i] + b[i] - BitAnd(a[i], b[i], 8)]

Zero64 == [i \in 1..8 |-> 0]

\* the natural number held by a u64 whose bytes 4..7 are zero and bit 31 clear
Nat64(a) == a[1] + 256 * a[2] + 65536 * a[3] + 16777216 * a[4]

----------------------------------------------------------------------------
(* src/arch/smc.rs: constants *)

SMC_PSCI_VERSION  == W32(\h8400, \h0000)
SMC_CPU_ON        == W32(\h8400, \h0003)
SMC_CPU_OFF       == W32(\h8400, \h0002)
SMC_SYSTEM_RESET  == W32(\h8400, \h0009)
SMC_AFFINITY_INFO == W32(\h8400, \h0004)

NUM_CORES == 8

\* result codes returned in x0 by handle_smc
RET_PSCI_VERSION       == W32(\h0001, \h0001)
RET_SUCCESS            == W32(0, 0)
RET_INVALID_PARAMETERS == W32(\hFFFF, \hFFFF)
RET_ALREADY_ON         == W32(\hFFFF, \hFFFE)
RET_CORE_ON            == W32(0, 0)
RET_CORE_OFF           == W32(0, 1)
RET_INVALID_FUNCTION   == W32(\hFFFF, \hFFFF)

Slots == 0..(NUM_CORES - 1)

ZeroParams == [entry_point |-> 0, context_id |-> 0]

----------------------------------------------------------------------------
(* The cores that execute the code, each with the MPIDR_EL1 it reads.      *)
(* Bit 31 of MPIDR_EL1 is RES1; Aff0 is the position, Aff1 the cluster.    *)

Mpidr(cluster, position) == <<position, cluster, 0, 128, 0, 0, 0, 0>>

Cores == {Mpidr(0, 0), Mpidr(0, 2), Mpidr(1, 0)}

\* smc.rs get_current_core_id: mpidr & 0xFF
get_current_core_id(mpidr) == Nat64(And64(mpidr, <<255, 0, 0, 0, 0, 0, 0, 0>>))

----------------------------------------------------------------------------
(* src/arch/gic.rs: MPIDR decoding (the affinity resolver) *)

MPIDR_AFFINITY_MASK     == <<255, 255, 255, 0, 255, 0, 0, 0>>
MPIDR_AFFLVL_MASK       == <<255, 0, 0, 0, 0, 0, 0, 0>>
MPIDR_AFFINITY_BITS     == 8
MPIDR_CPU_MASK          == MPIDR_AFFLVL_MASK
\* MPIDR_AFFLVL_MASK << MPIDR_AFFINITY_BITS
MPIDR_CLUSTER_MASK      == <<0, 255, 0, 0, 0, 0, 0, 0>>
MPIDR_AFF1_SHIFT        == MPIDR_AFFINITY_BITS
S32_MPIDR_CPU_MASK_BITS == 3

PLATFORM_CLUSTER_COUNT        == 4
PLATFORM_MAX_CPUS_PER_CLUSTER == 8

\* u64 >> bits, for a shift by whole bytes
Shr64(a, bits) ==
    [i \in 1..8 |-> IF i + (bits \div 8) <= 8 THEN a[i + (bits \div 8)] ELSE 0]

\* aarch64.rs cpu_id: ((mpidr >> 8) & 0xFF) as u8
aarch64_cpu_id(mpidr) ==
    Nat64(And64(Shr64(mpidr, 8), <<255, 0, 0, 0, 0, 0, 0, 0>>)) % 256

mpidr_afflvl_val(mpidr, level) ==
    Nat64(And64(Shr64(mpidr, level * MPIDR_AFFINITY_BITS), MPIDR_AFFLVL_MASK))

\* mutant of s32_core_pos_by_mpidr: the cluster is shifted by two bits only
s32_core_pos_by_mpidr_Shift2(mpidr) ==
    LET cpu_id     == Nat64(And64(mpidr, MPIDR_CPU_MASK))
        cluster_id == Nat64(Shr64(And64(mpidr, MPIDR_CLUSTER_MASK), MPIDR_AFF1_SHIFT))
    IN  cpu_id + cluster_id * (2 ^ 2)

s32_core_pos_by_mpidr(mpidr) ==
    LET cpu_id     == Nat64(And64(mpidr, MPIDR_CPU_MASK))
        cluster_id == Nat64(Shr64(And64(mpidr, MPIDR_CLUSTER_MASK), MPIDR_AFF1_SHIFT))
    IN  cpu_id + cluster_id * (2 ^ S32_MPIDR_CPU_MASK_BITS)

Ok(v)  == [ok |-> TRUE, val |-> v, err |-> ""]
Err(e) == [ok |-> FALSE, val |-> 0, err |-> e]

\* mutant of plat_core_pos_by_mpidr: the check for unexpected bits is left out
plat_core_pos_by_mpidr_NoBitCheck(raw) ==
    LET mpidr      == And64(raw, MPIDR_AFFINITY_MASK)
        cluster_id == mpidr_afflvl_val(mpidr, 1)
        cpu_id     == mpidr_afflvl_val(mpidr, 0)
    IN  IF cluster_id >= PLATFORM_CLUSTER_COUNT
           \/ cpu_id >= PLATFORM_MAX_CPUS_PER_CLUSTER
        THEN Err("Invalid MPIDR value: cluster or CPU ID out of range")
        ELSE Ok(s32_core_pos_by_mpidr(mpidr))

plat_core_pos_by_mpidr(raw) ==
    LET mpidr      == And64(raw, MPIDR_AFFINITY_MASK)
        cluster_id == mpidr_afflvl_val(mpidr, 1)
        cpu_id     == mpidr_afflvl_val(mpidr, 0)
    IN  IF And64(mpidr, Not64(Or64(MPIDR_CLUSTER_MASK, MPIDR_CPU_MASK))) # Zero64
        THEN Err("Invalid MPIDR value: unexpected bits set")
        ELSE IF cluster_id >= PLATFORM_CLUSTER_COUNT
                \/ cpu_id >= PLATFORM_MAX_CPUS_PER_CLUSTER
        THEN Err("Invalid MPIDR value: cluster or CPU ID out of range")
        ELSE Ok(s32_core_pos_by_mpidr(mpidr))

\* send_sgi_to_core: a core position split into its Aff0 and Aff1 values
sgi_cpu_id(target_core_pos) ==
    BitAnd(target_core_pos, (2 ^ S32_MPIDR_CPU_MASK_BITS) - 1, 16)

sgi_cluster_id(target_core_pos) ==
    target_core_pos \div (2 ^ S32_MPIDR_CPU_MASK_BITS)

----------------------------------------------------------------------------
(* src/arch/smc.rs: handle_smc and get_secondary_boot_params *)

\* no extra fields of an event
\* nothing decoded yet / no driver call made yet
NoResolve == [op |-> "none", index |-> 0, raw |-> Zero64, result |-> Ok(0)]

NoCall == [op |-> "none", core |-> Zero64, id |-> 0, priority |-> 0,
           gicr_base |-> 0, ok |-> TRUE, err |-> "", writes |-> {}]

\* the cores that run kernel_init, and the redistributor each one addresses
BootCores == {Mpidr(0, 0), Mpidr(1, 0)}

\* GICR_WAKER bits 1 and 2; after reset a redistributor is asleep
Waker(processor_sleep, children_asleep) ==
    [ProcessorSleep |-> processor_sleep, ChildrenAsleep |-> children_asleep]

\* a core out of reset: IRQs masked, CPU interface untouched
CoreReset ==
    [pc |-> "kernel_init", masked |-> TRUE, gicr_base |-> 0, waker |-> Waker(FALSE, FALSE),
     sre |-> FALSE, pmr |-> 0, bpr |-> 7, igrpen1 |-> FALSE,
     woke |-> FALSE, seen_awake |-> FALSE, init |-> "not called"]

BootReset ==
    [GIC_INITIALIZED |-> FALSE,
     GICR_WAKER |-> [r \in {s32_core_pos_by_mpidr(c) : c \in BootCores} |->
                       Waker(TRUE, TRUE)],
     sgi_ppi |-> {},
     distributor |-> "Disabled",
     core |-> [c \in BootCores |-> CoreReset]]

\* the registers of a core that runs with no exception taken yet
Registers(x, sp, elr, spsr, address, pstate) ==
    [x |-> x, sp |-> sp, elr_el1 |-> elr, spsr_el1 |-> spsr,
     pc |-> address, pstate |-> pstate]

NoException ==
    [at |-> "running", vector |-> "none",
     cpu |-> Registers([i \in 0..30 |-> 0], 0, 0, 0, 0, 0),
     frame |-> [w \in 0..33 |-> 0],
     entry |-> Registers([i \in 0..30 |-> 0], 0, 0, 0, 0, 0),
     esr_ec |-> 0, uart |-> <<>>, calls |-> {}]

\* a core that has taken no IRQ trap yet
NoTrap == [pc |-> "running", vector |-> "none", irq_id |-> 0, log |-> <<>>]

\* the SPIs whose enable bit and priority byte are followed: two of one
\* register word
TrackedSpis == {32, 33}

\* the GIC out of reset: nothing enabled, every priority 0, init_sgi_ppi not
\* yet called
GicReset ==
    [enabled |-> {}, priority |-> [id \in TrackedSpis |-> 0],
     sgi_group1 |-> {}, sgi_enabled |-> {}, sgi_priority |-> [i \in 0..31 |-> 0],
     at |-> "init_sgi_ppi", i |-> 0, prio |-> <<0, 0, 0, 0>>, about |-> {}]

NoMore == [f \in {} |-> 0]

NoRegs == [x0 |-> W32(0, 0), x1 |-> 0, x2 |-> 0, x3 |-> 0, loaded |-> FALSE]

NoEvent ==
    [op |-> "none", core |-> Zero64, a0 |-> 0, a1 |-> 0, a2 |-> 0,
     ret |-> W32(0, 0), params |-> ZeroParams, slot |-> -1,
     before |-> FALSE, after |-> FALSE, obs |-> {}, recorded |-> {}]

\* the pc values of a core that is inside the CPU_ON arm, past its checks
CpuOnStages ==
    {"cpu_on_store", "cpu_on_stored_entry", "cpu_on_stored_context", "cpu_on_ret"}

\* arg0 & 0xFF
target_cpu(arg0) == arg0 % 256

\* the cores that are past the checks of a CPU_ON for slot t
InFlightOn(t) == {d \in Cores : pc[d] \in CpuOnStages /\ target_cpu(regs[d].x1) = t}

ArgPair(d) == [entry_point |-> regs[d].x2, context_id |-> regs[d].x3]

get_secondary_boot_params(core_id) ==
    IF core_id < NUM_CORES
    THEN [entry_point |-> CORE_BOOT_PARAMS[core_id].entry_point,
          context_id  |-> CORE_BOOT_PARAMS[core_id].context_id]
    ELSE ZeroParams

\* the exception return of handle_smc on core c with result r
SmcReturn(c, op, r, more) ==
    /\ pc'   = [pc EXCEPT ![c] = "idle"]
    /\ regs' = [regs EXCEPT ![c] = NoRegs]
    /\ ev'   = [f \in DOMAIN NoEvent |->
                   IF f \in DOMAIN more THEN more[f]
                   ELSE IF f = "op" THEN op
                   ELSE IF f = "core" THEN c
                   ELSE IF f = "a0" THEN regs[c].x1
                   ELSE IF f = "a1" THEN regs[c].x2
                   ELSE IF f = "a2" THEN regs[c].x3
                   ELSE IF f = "ret" THEN r
                   ELSE NoEvent[f]]

\* smc::call: the smc #0 instruction traps into handle_smc
SmcTrap(c, function_id, arg0, arg1, arg2) ==
    /\ pc[c] = "idle"
    /\ pc'   = [pc EXCEPT ![c] = "handle_smc"]
    /\ regs' = [regs EXCEPT ![c] = [x0 |-> function_id, x1 |-> arg0,
                                    x2 |-> arg1, x3 |-> arg2, loaded |-> FALSE]]
    /\ obs'  = [obs EXCEPT ![c] = {}]
    /\ UNCHANGED <<CORE_STATES, CORE_BOOT_PARAMS, ev, histOn, lastOn, reads>>

PsciVersion(c) ==
    /\ pc[c] = "handle_smc"
    /\ regs[c].x0 = SMC_PSCI_VERSION
    /\ SmcReturn(c, "PSCI_VERSION", RET_PSCI_VERSION, NoMore)
    /\ UNCHANGED <<CORE_STATES, CORE_BOOT_PARAMS, histOn, lastOn, reads, obs>>

\* mutant of CpuOnCheck: the target is marked active before its boot
\* parameters are stored
CpuOnCheck_PublishFirst(c) ==
    /\ pc[c] = "handle_smc"
    /\ regs[c].x0 = SMC_CPU_ON
    /\ LET t == target_cpu(regs[c].x1)
       IN  IF t >= NUM_CORES
           THEN /\ SmcReturn(c, "CPU_ON", RET_INVALID_PARAMETERS, NoMore)
                /\ UNCHANGED CORE_STATES
           ELSE IF CORE_STATES[t]
           THEN /\ SmcReturn(c, "CPU_ON", RET_ALREADY_ON, [slot |-> t])
                /\ UNCHANGED CORE_STATES
           ELSE /\ pc'   = [pc EXCEPT ![c] = "cpu_on_store"]
                /\ regs' = [regs EXCEPT ![c].loaded = CORE_STATES[t]]
                /\ CORE_STATES' = [CORE_STATES EXCEPT ![t] = TRUE]
                /\ UNCHANGED ev
    /\ UNCHANGED <<CORE_BOOT_PARAMS, histOn, lastOn, reads, obs>>

\* SMC_CPU_ON up to and including the CORE_STATES load
CpuOnCheck(c) ==
    /\ pc[c] = "handle_smc"
    /\ regs[c].x0 = SMC_CPU_ON
    /\ LET t == target_cpu(regs[c].x1)
       IN  IF t >= NUM_CORES
           THEN SmcReturn(c, "CPU_ON", RET_INVALID_PARAMETERS, NoMore)
           ELSE IF CORE_STATES[t]
           THEN SmcReturn(c, "CPU_ON", RET_ALREADY_ON, [slot |-> t, before |-> TRUE])
           ELSE /\ pc'   = [pc EXCEPT ![c] = "cpu_on_store"]
                /\ regs' = [regs EXCEPT ![c].loaded = CORE_STATES[t]]
                /\ UNCHANGED ev
    /\ UNCHANGED <<CORE_STATES, CORE_BOOT_PARAMS, histOn, lastOn, reads, obs>>

\* CORE_BOOT_PARAMS[target] = CoreBootParams { .. }: a plain (non-atomic) store of
\* two u64 fields, which the build may emit in either order
CpuOnStoreEntryPoint(c) ==
    /\ pc[c] \in {"cpu_on_store", "cpu_on_stored_context"}
    /\ CORE_BOOT_PARAMS' =
           [CORE_BOOT_PARAMS EXCEPT ![target_cpu(regs[c].x1)].entry_point = regs[c].x2]
    /\ pc' = [pc EXCEPT ![c] =
                 IF pc[c] = "cpu_on_store" THEN "cpu_on_stored_entry" ELSE "cpu_on_ret"]
    /\ UNCHANGED <<CORE_STATES, regs, ev, histOn, lastOn, reads, obs>>

\* mutant of CpuOnStoreContextId: the entry point is stored in both fields
CpuOnStoreContextId_StoresEntry(c) ==
    /\ pc[c] \in {"cpu_on_store", "cpu_on_stored_entry"}
    /\ CORE_BOOT_PARAMS' =
           [CORE_BOOT_PARAMS EXCEPT ![target_cpu(regs[c].x1)].context_id = regs[c].x2]
    /\ pc' = [pc EXCEPT ![c] =
                 IF pc[c] = "cpu_on_store" THEN "cpu_on_stored_context" ELSE "cpu_on_ret"]
    /\ UNCHANGED <<CORE_STATES, regs, ev, histOn, lastOn, reads, obs>>

CpuOnStoreContextId(c) ==
    /\ pc[c] \in {"cpu_on_store", "cpu_on_stored_entry"}
    /\ CORE_BOOT_PARAMS' =
           [CORE_BOOT_PARAMS EXCEPT ![target_cpu(regs[c].x1)].context_id = regs[c].x3]
    /\ pc' = [pc EXCEPT ![c] =
                 IF pc[c] = "cpu_on_store" THEN "cpu_on_stored_context" ELSE "cpu_on_ret"]
    /\ UNCHANGED <<CORE_STATES, regs, ev, histOn, lastOn, reads, obs>>

\* "Core activation initiated", return 0
CpuOnReturn(c) ==
    /\ pc[c] = "cpu_on_ret"
    /\ LET t == target_cpu(regs[c].x1)
       IN  /\ SmcReturn(c, "CPU_ON", RET_SUCCESS,
                        [slot |-> t, before |-> regs[c].loaded,
                         after |-> CORE_STATES[t], obs |-> obs[c]])
           /\ histOn' = [histOn EXCEPT ![t] = TRUE]
           /\ lastOn' = [lastOn EXCEPT ![t] = ArgPair(c)]
           /\ reads'  = [reads EXCEPT ![t] = 0]
    /\ UNCHANGED <<CORE_STATES, CORE_BOOT_PARAMS, obs>>

\* SMC_CPU_OFF; CORE_STATES[this_cpu as usize] is bounds-checked and panics
CpuOff(c) ==
    /\ pc[c] = "handle_smc"
    /\ regs[c].x0 = SMC_CPU_OFF
    /\ LET this_cpu == get_current_core_id(c)
           index    == s32_core_pos_by_mpidr(c)
       IN  IF this_cpu < NUM_CORES
           THEN /\ CORE_STATES' = [CORE_STATES EXCEPT ![this_cpu] = FALSE]
                /\ SmcReturn(c, "CPU_OFF", RET_SUCCESS, [slot |-> this_cpu])
                /\ histOn' = [t \in Slots |->
                                 IF t = this_cpu \/ t = index THEN FALSE ELSE histOn[t]]
           ELSE /\ pc' = [pc EXCEPT ![c] = "panic"]
                /\ UNCHANGED <<CORE_STATES, regs, ev, histOn>>
    /\ UNCHANGED <<CORE_BOOT_PARAMS, lastOn, reads, obs>>

\* SMC_SYSTEM_RESET: loop {} - the handler never returns
SystemReset(c) ==
    /\ pc[c] = "handle_smc"
    /\ regs[c].x0 = SMC_SYSTEM_RESET
    /\ pc' = [pc EXCEPT ![c] = "reset_loop"]
    /\ UNCHANGED <<CORE_STATES, CORE_BOOT_PARAMS, regs, ev, histOn, lastOn, reads, obs>>

\* mutant of AffinityInfo: the query resets the boot parameters of its target
AffinityInfo_ClearsParams(c) ==
    /\ pc[c] = "handle_smc"
    /\ regs[c].x0 = SMC_AFFINITY_INFO
    /\ LET t == target_cpu(regs[c].x1)
           r == IF t >= NUM_CORES THEN RET_INVALID_PARAMETERS
                ELSE IF CORE_STATES[t] THEN RET_CORE_ON ELSE RET_CORE_OFF
       IN  /\ SmcReturn(c, "AFFINITY_INFO", r,
                        IF t >= NUM_CORES THEN NoMore
                        ELSE [slot |-> t, params |-> CORE_BOOT_PARAMS[t],
                              recorded |-> {ArgPair(d) : d \in InFlightOn(t)}
                                           \cup (IF histOn[t] THEN {lastOn[t]} ELSE {})])
           /\ obs' = [d \in Cores |->
                        IF d \in InFlightOn(t) THEN obs[d] \cup {r} ELSE obs[d]]
           /\ CORE_BOOT_PARAMS' = [s \in Slots |->
                                     IF s = t THEN ZeroParams ELSE CORE_BOOT_PARAMS[s]]
    /\ UNCHANGED <<CORE_STATES, histOn, lastOn, reads>>

AffinityInfo(c) ==
    /\ pc[c] = "handle_smc"
    /\ regs[c].x0 = SMC_AFFINITY_INFO
    /\ LET t == target_cpu(regs[c].x1)
           r == IF t >= NUM_CORES THEN RET_INVALID_PARAMETERS
                ELSE IF CORE_STATES[t] THEN RET_CORE_ON ELSE RET_CORE_OFF
       IN  /\ SmcReturn(c, "AFFINITY_INFO", r,
                        IF t >= NUM_CORES THEN NoMore
                        ELSE [slot |-> t, params |-> CORE_BOOT_PARAMS[t],
                              recorded |-> {ArgPair(d) : d \in InFlightOn(t)}
                                           \cup (IF histOn[t] THEN {lastOn[t]} ELSE {})])
           /\ obs' = [d \in Cores |->
                        IF d \in InFlightOn(t) THEN obs[d] \cup {r} ELSE obs[d]]
    /\ UNCHANGED <<CORE_STATES, CORE_BOOT_PARAMS, histOn, lastOn, reads>>

KnownFunctionIds ==
    {SMC_PSCI_VERSION, SMC_CPU_ON, SMC_CPU_OFF, SMC_SYSTEM_RESET, SMC_AFFINITY_INFO}

\* the default arm of the match
\* mutant of UnknownFunction: an unmatched identifier records boot parameters
UnknownFunction_StoresParams(c) ==
    /\ pc[c] = "handle_smc"
    /\ regs[c].x0 \notin KnownFunctionIds
    /\ SmcReturn(c, "UNKNOWN", RET_INVALID_FUNCTION, NoMore)
    /\ CORE_BOOT_PARAMS' = [CORE_BOOT_PARAMS EXCEPT ![target_cpu(regs[c].x1)] =
                               [entry_point |-> regs[c].x2, context_id |-> regs[c].x3]]
    /\ UNCHANGED <<CORE_STATES, histOn, lastOn, reads, obs>>

UnknownFunction(c) ==
    /\ pc[c] = "handle_smc"
    /\ regs[c].x0 \notin KnownFunctionIds
    /\ SmcReturn(c, "UNKNOWN", RET_INVALID_FUNCTION, NoMore)
    /\ UNCHANGED <<CORE_STATES, CORE_BOOT_PARAMS, histOn, lastOn, reads, obs>>

\* the reads of one core's boot parameters that are followed
MaxReads == 2

\* a core calls get_secondary_boot_params(core_id)
GetSecondaryBootParams(c, core_id) ==
    /\ pc[c] = "idle"
    /\ IF core_id \in Slots /\ plat_core_pos_by_mpidr(c) = Ok(core_id)
       THEN /\ reads[core_id] < MaxReads
            /\ reads' = [reads EXCEPT ![core_id] = @ + 1]
       ELSE UNCHANGED reads
    /\ ev' = [NoEvent EXCEPT !.op = "get_secondary_boot_params", !.core = c,
                             !.a0 = core_id,
                             !.params = get_secondary_boot_params(core_id)]
    /\ UNCHANGED <<CORE_STATES, CORE_BOOT_PARAMS, pc, regs, histOn, lastOn, obs>>

\* the two contexts of the core that uses the queue
Contexts == {"task", "isr"}

NoWait == [some |-> FALSE, ticks |-> 0]

NoQueueCall ==
    [pc |-> "idle", op |-> "none", item |-> 0, max_wait |-> NoWait, start_tick |-> 0,
     success |-> FALSE, got |-> 0, entered_masked |-> FALSE, timed_out |-> FALSE,
     snap |-> <<>>]

\* the core before Queue::new: IRQs unmasked, no call in progress
QueueReset ==
    [created |-> FALSE, capacity |-> 0, data |-> <<>>, length |-> 0, head |-> 0,
     tail |-> 0, masked |-> FALSE, TICK_COUNT |-> 0, calls |-> 0,
     sent |-> <<>>, received |-> <<>>,
     ctx |-> [x \in Contexts |-> NoQueueCall]]

InitSmc ==
    /\ CORE_STATES = [t \in Slots |-> FALSE]
    /\ CORE_BOOT_PARAMS = [t \in Slots |-> ZeroParams]
    /\ pc = [c \in Cores |-> "idle"]
    /\ regs = [c \in Cores |-> NoRegs]
    /\ ev = NoEvent
    /\ histOn = [t \in Slots |-> FALSE]
    /\ lastOn = [t \in Slots |-> ZeroParams]
    /\ obs = [c \in Cores |-> {}]
    /\ reads = [t \in Slots |-> 0]
    /\ resolved = NoResolve
    /\ mmio = NoCall
    /\ irq = [c \in Cores |-> NoTrap]
    /\ boot = BootReset
    /\ trap = NoException
    /\ gicregs = GicReset
    /\ queue = QueueReset

----------------------------------------------------------------------------
(* Callers *)

\* the (entry_point, context_id) pairs a caller passes to CPU_ON
ParamPairs == {<<p, 16 + p>> : p \in 1..MaxParam}

\* a function identifier that no arm of the match names (the SMC64 CPU_ON id)
SMC64_CPU_ON == W32(\hC400, \h0003)

\* target arguments: in range, the first out of range, and a value above 255
\* whose low byte is an in-range index (0x102)
Arg0Values == {2, 8, 258}

Primary == Mpidr(0, 0)

\* the primary core brings cores up and queries them; every core may query
\* a core and retire itself
\* identifiers no arm of handle_smc matches: CPU_SUSPEND, SYSTEM_OFF, the
\* SMC64 form of CPU_ON, zero
UnknownFunctionIds ==
    {W32(\h8400, \h0001), W32(\h8400, \h0008), SMC64_CPU_ON, W32(0, 0)}

SmcCalls(c) ==
    {<<SMC_AFFINITY_INFO, a0, 0, 0>> : a0 \in Arg0Values}
    \cup {<<SMC_CPU_OFF, 0, 0, 0>>}
    \cup (IF c = Primary
          THEN {<<SMC_CPU_ON, a0, p[1], p[2]>> : a0 \in Arg0Values, p \in ParamPairs}
               \cup {<<f, 0, 0, 0>> :
                        f \in {SMC_PSCI_VERSION, SMC_SYSTEM_RESET, SMC64_CPU_ON}}
               \cup {<<f, 2, 2, 18>> : f \in UnknownFunctionIds}
          ELSE {})

BootIds == {2, 8}

\* no core is inside handle_smc
AllQuiet == \A d \in Cores : pc[d] \in {"idle", "reset_loop", "panic"}

\* Calls made one at a time: a call starts only when no other is in progress
NextSmcSeq ==
    \/ \E c \in Cores : \E call \in SmcCalls(c) :
          AllQuiet /\ SmcTrap(c, call[1], call[2], call[3], call[4]) /\ UNCHANGED gicVars
    \/ \E c \in Cores : PsciVersion(c) /\ UNCHANGED gicVars
    \/ \E c \in Cores : CpuOnCheck(c) /\ UNCHANGED gicVars
    \/ \E c \in Cores : CpuOnStoreEntryPoint(c) /\ UNCHANGED gicVars
    \/ \E c \in Cores : CpuOnStoreContextId(c) /\ UNCHANGED gicVars
    \/ \E c \in Cores : CpuOnReturn(c) /\ UNCHANGED gicVars
    \/ \E c \in Cores : CpuOff(c) /\ UNCHANGED gicVars
    \/ \E c \in Cores : SystemReset(c) /\ UNCHANGED gicVars
    \/ \E c \in Cores : AffinityInfo(c) /\ UNCHANGED gicVars
    \/ \E c \in Cores : UnknownFunction(c) /\ UNCHANGED gicVars
    \/ \E c \in Cores, core_id \in BootIds :
          AllQuiet /\ GetSecondaryBootParams(c, core_id) /\ UNCHANGED gicVars

SpecSmcSeq == InitSmc /\ [][NextSmcSeq]_vars

----------------------------------------------------------------------------
(* Claims about the secure-monitor bridge, calls made one at a time *)

\* core c leaves handle_smc in this step, having been called with function id f
SmcReturns(c, f) == pc[c] # "idle" /\ pc'[c] = "idle" /\ regs[c].x0 = f

\* C1 - CPU_ON idempotence guard: a CPU_ON for an in-range target returns
\* success, and the next CPU_ON for the same target, with no CPU_OFF executed
\* by that target in between, returns AlreadyOn.
C1_CpuOnIdempotenceGuard ==
    [][\A c \in Cores :
         (SmcReturns(c, SMC_CPU_ON) /\ regs[c].x1 \in Slots)
           => ev'.ret = IF histOn[regs[c].x1] THEN RET_ALREADY_ON ELSE RET_SUCCESS]_vars

\* C2 - AFFINITY_INFO consistency: for an in-range target AFFINITY_INFO reports
\* On after a successful CPU_ON for it and before the target's own CPU_OFF, and
\* Off before any CPU_ON for it and after its CPU_OFF.
C2_AffinityInfoConsistency ==
    [][\A c \in Cores :
         (SmcReturns(c, SMC_AFFINITY_INFO) /\ regs[c].x1 \in Slots)
           => ev'.ret = IF histOn[regs[c].x1] THEN RET_CORE_ON ELSE RET_CORE_OFF]_vars

C5_InvalidTargetRejected ==
    (ev.op \in {"CPU_ON", "AFFINITY_INFO"} /\ ev.a0 \notin Slots)
      => ev.ret = RET_INVALID_PARAMETERS

\* C6 - CPU_OFF sets the state of exactly the calling core to Off: the slot
\* written is the slot of the caller's core index (the one CPU_ON and
\* AFFINITY_INFO address it by), it is inside the table, and no other state slot
\* and no boot parameters change.
C6_CpuOffWritesOwnSlot ==
    [][\A c \in Cores :
         SmcReturns(c, SMC_CPU_OFF)
           => LET index == plat_core_pos_by_mpidr(c)
              IN  /\ index.ok
                  /\ index.val \in Slots
                  /\ ev'.slot = index.val
                  /\ CORE_STATES' = [CORE_STATES EXCEPT ![index.val] = FALSE]
                  /\ CORE_BOOT_PARAMS' = CORE_BOOT_PARAMS]_vars

----------------------------------------------------------------------------
(* Cores running handle_smc concurrently *)

\* the primary core turns core 2 on while the other cores query it, core 2
\* retires itself and reads its boot parameters
RaceCalls(c) ==
    IF c = Primary
    THEN {<<SMC_CPU_ON, 2, p[1], p[2]>> : p \in ParamPairs}
    ELSE {<<SMC_AFFINITY_INFO, 2, 0, 0>>}
         \cup (IF c = Mpidr(0, 2) THEN {<<SMC_CPU_OFF, 0, 0, 0>>} ELSE {})

NextSmcRace ==
    \/ \E c \in Cores : \E call \in RaceCalls(c) :
          SmcTrap(c, call[1], call[2], call[3], call[4]) /\ UNCHANGED gicVars
    \/ \E c \in Cores : CpuOnCheck(c) /\ UNCHANGED gicVars
    \/ \E c \in Cores : CpuOnStoreEntryPoint(c) /\ UNCHANGED gicVars
    \/ \E c \in Cores : CpuOnStoreContextId(c) /\ UNCHANGED gicVars
    \/ \E c \in Cores : CpuOnReturn(c) /\ UNCHANGED gicVars
    \/ \E c \in Cores : CpuOff(c) /\ UNCHANGED gicVars
    \/ \E c \in Cores : AffinityInfo(c) /\ UNCHANGED gicVars
    \/ GetSecondaryBootParams(Mpidr(0, 2), 2) /\ UNCHANGED gicVars

SpecSmcRace == InitSmc /\ [][NextSmcRace]_vars

\* the encoding AFFINITY_INFO gives a CORE_STATES value
AffinityEncoding(on) == IF on THEN RET_CORE_ON ELSE RET_CORE_OFF

----------------------------------------------------------------------------
(* MPIDR decoding (gic.rs): the resolver applied to raw register values and *)
(* to the affinity values send_sgi_to_core derives from a core position    *)

\* core positions 0..MaxIndex are converted to an affinity value
MaxIndex == 39

\* values of the bytes of a raw MPIDR_EL1: Aff0, Aff1, Aff2, bits 24..31
\* (MT, U, RES1), Aff3, bits 40..63
Aff0Values == {0, 5, 7, 8, 255}
Aff1Values == {0, 1, 3, 4}
Aff2Values == {0, 128}
FlagValues == {0, 1, 128}
Aff3Values == {0, 1}
HighValues == {0, 255}

RawAffinities ==
    {<<a0, a1, a2, fl, a3, hi, hi, hi>> :
        a0 \in Aff0Values, a1 \in Aff1Values, a2 \in Aff2Values,
        fl \in FlagValues, a3 \in Aff3Values, hi \in HighValues}

\* the affinity value of a core position, as send_sgi_to_core splits it
to_affinity(index) ==
    <<sgi_cpu_id(index), sgi_cluster_id(index), 0, 0, 0, 0, 0, 0>>

Resolve(raw) ==
    /\ resolved' = [op |-> "resolve", index |-> 0, raw |-> raw,
                    result |-> plat_core_pos_by_mpidr(raw),
                    core_id |-> get_current_core_id(raw), cpu_id |-> aarch64_cpu_id(raw)]
    /\ UNCHANGED <<smcVars, mmio, laterVars, gicregs, queue>>

RoundTrip(index) ==
    /\ resolved' = [op |-> "round_trip", index |-> index, raw |-> to_affinity(index),
                    result |-> plat_core_pos_by_mpidr(to_affinity(index)),
                    core_id |-> get_current_core_id(to_affinity(index)),
                    cpu_id |-> aarch64_cpu_id(to_affinity(index))]
    /\ UNCHANGED <<smcVars, mmio, laterVars, gicregs, queue>>

NextAff ==
    \/ \E raw \in RawAffinities : Resolve(raw)
    \/ \E index \in 0..MaxIndex : RoundTrip(index)

SpecAff == InitSmc /\ [][NextAff]_vars

\* C7 - Affinity round trip: every core position below cluster count times
\* cores per cluster (which includes the NUM_CORES slots of the state table),
\* split into cluster = index >> 3 and position = index & 7 and resolved
\* again, yields Ok(index).
C7_AffinityRoundTrip ==
    (resolved.op = "round_trip"
       /\ resolved.index < PLATFORM_CLUSTER_COUNT * PLATFORM_MAX_CPUS_PER_CLUSTER)
    => /\ resolved.raw[1] = resolved.index % PLATFORM_MAX_CPUS_PER_CLUSTER
       /\ resolved.raw[2] = resolved.index \div PLATFORM_MAX_CPUS_PER_CLUSTER
       /\ resolved.result = [ok |-> TRUE, val |-> resolved.index, err |-> ""]

C7_Witness ==
    /\ resolved.op = "round_trip"
    /\ resolved.index = 13
    /\ resolved.raw = <<5, 1, 0, 0, 0, 0, 0, 0>>
    /\ resolved.result.ok
    /\ resolved.result.val = 13

\* the raw value has a bit set outside Aff0 (bits 0..7) and Aff1 (bits 8..15)
OutsideClusterAndPosition(raw) == \E k \in 3..8 : raw[k] # 0

\* the raw value has a bit set in Aff2 (bits 16..23) or Aff3 (bits 32..39)
InAff2OrAff3(raw) == raw[3] # 0 \/ raw[5] # 0

OutOfPlatformBounds(raw) ==
    raw[2] >= PLATFORM_CLUSTER_COUNT \/ raw[1] >= PLATFORM_MAX_CPUS_PER_CLUSTER

\* C8 (as stated) - Affinity rejection: every raw value with any bit set
\* outside the cluster and position fields, or with a cluster or a position
\* beyond the platform bounds, resolves to an error.
C8_AnyOutsideBitRejected ==
    (resolved.op = "resolve"
       /\ (OutsideClusterAndPosition(resolved.raw) \/ OutOfPlatformBounds(resolved.raw)))
    => ~resolved.result.ok

\* C8 (amended) - Affinity rejection: a raw value resolves to an error when
\* a bit of Aff2 or Aff3 is set or the cluster or the position is beyond the
\* platform bounds; bits 24..31 and 40..63 are masked off first and never
\* cause a rejection: with them set the value resolves to the position of
\* its cluster and position fields.
C8_AffinityRejection ==
    resolved.op = "resolve"
    => IF InAff2OrAff3(resolved.raw) \/ OutOfPlatformBounds(resolved.raw)
       THEN ~resolved.result.ok
       ELSE resolved.result =
              [ok |-> TRUE, err |-> "",
               val |-> resolved.raw[1] + PLATFORM_MAX_CPUS_PER_CLUSTER * resolved.raw[2]]

C8_Witness ==
    /\ resolved.op = "resolve"
    /\ resolved.raw = <<5, 1, 128, 128, 0, 0, 0, 0>>
    /\ ~resolved.result.ok
    /\ resolved.result.err = "Invalid MPIDR value: unexpected bits set"

----------------------------------------------------------------------------
(* GIC driver (gic.rs): per-interrupt enable, disable and priority calls.  *)
(* The registers are write-only for the driver (write_volatile, never read *)
(* back), so a call is described by its Result and the writes it made.     *)

GICD_BASE == \h50800000
GICR_BASE == \h50900000
GICD_ISENABLER == \h0100
GICD_ICENABLER == \h0180
GICD_IPRIORITYR == \h0400
GICR_STRIDE == \h20000
GICR_SGI_OFFSET == \h10000
GICR_IPRIORITYR == \h0400

\* 1u32 << bit_offset, as a W32
Shl1(bit_offset) ==
    IF bit_offset < 16 THEN W32(0, 2 ^ bit_offset) ELSE W32(2 ^ (bit_offset - 16), 0)

Write(reg_addr, width, value) == [addr |-> reg_addr, width |-> width, value |-> value]

get_gicr_base_for_core(mpidr) ==
    LET r        == plat_core_pos_by_mpidr(mpidr)
        core_pos == IF r.ok THEN r.val ELSE 0
    IN  GICR_BASE + core_pos * GICR_STRIDE

\* the Result and the writes of one driver call
GicCall(c, op, id, priority, gicr_base, err, writes) ==
    /\ mmio' = [op |-> op, core |-> c, id |-> id, priority |-> priority,
                gicr_base |-> gicr_base, ok |-> (err = ""), err |-> err,
                writes |-> writes]
    /\ UNCHANGED <<smcVars, resolved, laterVars, queue>>

\* mutant of enable_spi: the upper limit is one too high
enable_spi_Upto1020(c, interrupt_id) ==
    IF interrupt_id < 32 \/ interrupt_id > 1020
    THEN GicCall(c, "enable_spi", interrupt_id, 0, 0, "Invalid SPI ID: must be 32-1019", {})
    ELSE GicCall(c, "enable_spi", interrupt_id, 0, 0, "",
                 {Write(GICD_BASE + GICD_ISENABLER + (interrupt_id \div 32) * 4, 32,
                        Shl1(interrupt_id % 32))})

enable_spi(c, interrupt_id) ==
    IF interrupt_id < 32 \/ interrupt_id >= 1020
    THEN GicCall(c, "enable_spi", interrupt_id, 0, 0, "Invalid SPI ID: must be 32-1019", {})
    ELSE LET reg_offset == (interrupt_id \div 32) * 4
             bit_offset == interrupt_id % 32
             reg_addr   == GICD_BASE + GICD_ISENABLER + reg_offset
         IN  GicCall(c, "enable_spi", interrupt_id, 0, 0, "",
                     {Write(reg_addr, 32, Shl1(bit_offset))})

disable_spi(c, interrupt_id) ==
    IF interrupt_id < 32 \/ interrupt_id >= 1020
    THEN GicCall(c, "disable_spi", interrupt_id, 0, 0, "Invalid SPI ID: must be 32-1019", {})
    ELSE LET reg_offset == (interrupt_id \div 32) * 4
             bit_offset == interrupt_id % 32
             reg_addr   == GICD_BASE + GICD_ICENABLER + reg_offset
         IN  GicCall(c, "disable_spi", interrupt_id, 0, 0, "",
                     {Write(reg_addr, 32, Shl1(bit_offset))})

set_spi_priority(c, interrupt_id, priority) ==
    IF interrupt_id < 32 \/ interrupt_id >= 1020
    THEN GicCall(c, "set_spi_priority", interrupt_id, priority, 0,
                 "Invalid SPI ID: must be 32-1019", {})
    ELSE LET byte_offset == interrupt_id
             reg_addr    == GICD_BASE + GICD_IPRIORITYR + byte_offset
         IN  GicCall(c, "set_spi_priority", interrupt_id, priority, 0, "",
                     {Write(reg_addr, 8, priority)})

\* mutant of set_sgi_priority: the priority byte of the distributor is written
set_sgi_priority_Distributor(c, gicr_base, sgi_id, priority) ==
    IF sgi_id > 15
    THEN GicCall(c, "set_sgi_priority", sgi_id, priority, gicr_base, "", {})
    ELSE GicCall(c, "set_sgi_priority", sgi_id, priority, gicr_base, "",
                 {Write(GICD_BASE + GICD_IPRIORITYR + sgi_id, 8, priority)})

\* returns (): an invalid SGI id is dropped without an error
set_sgi_priority(c, gicr_base, sgi_id, priority) ==
    IF sgi_id > 15
    THEN GicCall(c, "set_sgi_priority", sgi_id, priority, gicr_base, "", {})
    ELSE LET sgi_base    == gicr_base + GICR_SGI_OFFSET
             byte_offset == sgi_id
             reg_addr    == sgi_base + GICR_IPRIORITYR + byte_offset
         IN  GicCall(c, "set_sgi_priority", sgi_id, priority, gicr_base, "",
                     {Write(reg_addr, 8, priority)})

\* a natural below 2^31 as a u64, and a u64 shifted left by whole bytes
ToBytes(n) == [i \in 1..8 |-> IF i <= 4 THEN (n \div (256 ^ (i - 1))) % 256 ELSE 0]

ShlBytes(a, k) == [i \in 1..8 |-> IF i > k THEN a[i - k] ELSE 0]

\* the Result of one SGI call and its write to ICC_SGI1R_EL1, if any
SgiCall(c, op, target_core_pos, sgi_id, err, writes) ==
    /\ mmio' = [op |-> op, core |-> c, id |-> sgi_id, priority |-> 0,
                gicr_base |-> 0, ok |-> (err = ""), err |-> err,
                writes |-> writes, target |-> target_core_pos]
    /\ UNCHANGED <<smcVars, resolved, laterVars, queue>>

\* mutant of send_sgi_to_core: the target list is a flat mask of core positions
send_sgi_to_core_FlatMask(c, target_core_pos, sgi_id) ==
    IF sgi_id > 15
    THEN SgiCall(c, "send_sgi_to_core", target_core_pos, sgi_id,
                 "Invalid SGI ID: must be 0-15", {})
    ELSE LET cpu_id     == sgi_cpu_id(target_core_pos)
             cluster_id == sgi_cluster_id(target_core_pos)
             sgi_value  == Or64(Or64(ShlBytes(ToBytes(sgi_id), 3),
                                     ShlBytes(ToBytes(cluster_id), 2)),
                                ToBytes(2 ^ (target_core_pos % 16)))
         IN  IF cpu_id > 15
             THEN SgiCall(c, "send_sgi_to_core", target_core_pos, sgi_id,
                          "CPU ID exceeds maximum Aff0 value (15)", {})
             ELSE SgiCall(c, "send_sgi_to_core", target_core_pos, sgi_id, "",
                          {Write("ICC_SGI1R_EL1", 64, sgi_value)})

send_sgi_to_core(c, target_core_pos, sgi_id) ==
    IF sgi_id > 15
    THEN SgiCall(c, "send_sgi_to_core", target_core_pos, sgi_id,
                 "Invalid SGI ID: must be 0-15", {})
    ELSE LET cpu_id     == sgi_cpu_id(target_core_pos)
             cluster_id == sgi_cluster_id(target_core_pos)
             sgi_value  == Or64(Or64(ShlBytes(ToBytes(sgi_id), 3),
                                     ShlBytes(ToBytes(cluster_id), 2)),
                                ToBytes(2 ^ cpu_id))
         IN  IF cpu_id > 15
             THEN SgiCall(c, "send_sgi_to_core", target_core_pos, sgi_id,
                          "CPU ID exceeds maximum Aff0 value (15)", {})
             ELSE SgiCall(c, "send_sgi_to_core", target_core_pos, sgi_id, "",
                          {Write("ICC_SGI1R_EL1", 64, sgi_value)})

\* mutant of send_sgi_to_all: id 16 is let through
send_sgi_to_all_Upto16(c, sgi_id) ==
    IF sgi_id > 16
    THEN SgiCall(c, "send_sgi_to_all", 0, sgi_id, "Invalid SGI ID: must be 0-15", {})
    ELSE SgiCall(c, "send_sgi_to_all", 0, sgi_id, "",
                 {Write("ICC_SGI1R_EL1", 64, Or64(ShlBytes(ToBytes(128), 3), ToBytes(sgi_id)))})

\* (1u64 << 31) | sgi_id
send_sgi_to_all(c, sgi_id) ==
    IF sgi_id > 15
    THEN SgiCall(c, "send_sgi_to_all", 0, sgi_id, "Invalid SGI ID: must be 0-15", {})
    ELSE LET sgi_value == Or64(ShlBytes(ToBytes(128), 3), ToBytes(sgi_id))
         IN  SgiCall(c, "send_sgi_to_all", 0, sgi_id, "",
                     {Write("ICC_SGI1R_EL1", 64, sgi_value)})

\* (1u64 << 31) | (1u64 << 29) | sgi_id
send_sgi_to_others(c, sgi_id) ==
    IF sgi_id > 15
    THEN SgiCall(c, "send_sgi_to_others", 0, sgi_id, "Invalid SGI ID: must be 0-15", {})
    ELSE LET sgi_value == Or64(Or64(ShlBytes(ToBytes(128), 3), ShlBytes(ToBytes(32), 3)),
                               ToBytes(sgi_id))
         IN  SgiCall(c, "send_sgi_to_others", 0, sgi_id, "",
                     {Write("ICC_SGI1R_EL1", 64, sgi_value)})

\* core positions (u32) the callers of send_sgi_to_core pass
SgiTargets == {0, 3, 6, 7, 8, 31, 32, 300}

\* interrupt ids (u32), SGI ids (u8) and priorities (u8) the callers pass
InterruptIds == {0, 5, 15, 16, 27, 31, 32, 33, 63, 64, 500, 1019, 1020, 1021, 1023, 4096}
SgiIds == {0, 7, 15, 16, 27, 31, 255}
Priorities == {0, 160, 255}
RedistributorBases == {get_gicr_base_for_core(c) : c \in Cores}

NextGic ==
    \/ \E c \in Cores, id \in InterruptIds : enable_spi(c, id) /\ UNCHANGED <<gicregs, queue>>
    \/ \E c \in Cores, id \in InterruptIds : disable_spi(c, id) /\ UNCHANGED <<gicregs, queue>>
    \/ \E c \in Cores, id \in InterruptIds, priority \in Priorities :
          set_spi_priority(c, id, priority) /\ UNCHANGED <<gicregs, queue>>
    \/ \E c \in Cores, gicr_base \in RedistributorBases, id \in SgiIds,
          priority \in Priorities :
          set_sgi_priority(c, gicr_base, id, priority) /\ UNCHANGED <<gicregs, queue>>
    \/ \E c \in Cores, target \in SgiTargets, id \in SgiIds :
          send_sgi_to_core(c, target, id) /\ UNCHANGED <<gicregs, queue>>
    \/ \E c \in Cores, id \in SgiIds : send_sgi_to_all(c, id) /\ UNCHANGED <<gicregs, queue>>
    \/ \E c \in Cores, id \in SgiIds : send_sgi_to_others(c, id) /\ UNCHANGED <<gicregs, queue>>

SpecGic == InitSmc /\ [][NextGic]_vars

SpiCalls == {"enable_spi", "disable_spi", "set_spi_priority"}
IdCalls == SpiCalls \cup {"set_sgi_priority"}

InRedistributor(base, a) == a >= base /\ a < base + GICR_STRIDE

\* an address inside the distributor, which ends where the redistributors start
InDistributor(a) == a >= GICD_BASE /\ a < GICR_BASE

----------------------------------------------------------------------------
(* IRQ traps (exceptions.rs): the four IRQ vector entries end in           *)
(* exception_handler_irq, which reads the interrupt id from the CPU        *)
(* interface (ICC_IAR1_EL1), dispatches on it and writes it to             *)
(* ICC_EOIR1_EL1.  IRQs stay masked inside the handler, so a core is in at *)
(* most one trap; irq[c].log is what the current or the last trap did.     *)

\* the vector entries that reach exception_handler_irq
IrqVectors == {"el1_sp0_irq", "el1_irq", "lower_el_aarch64_irq", "lower_el_aarch32_irq"}

\* values the CPU interface hands out in ICC_IAR1_EL1: a PPI, two SPIs, the
\* special ids 1020..1023
IarValues == {27, 33, 500, 1020, 1021, 1022, 1023}

IrqCores == {Mpidr(0, 0), Mpidr(1, 0)}

Event(what, id) == [what |-> what, id |-> id]

\* acknowledge_interrupt: iar as u32 & 0xFFFFFF
acknowledge_interrupt(iar) == iar % (2 ^ 24)

\* the arm of handle_interrupt that an id selects
handle_interrupt(irq_id) ==
    IF irq_id = 33 THEN "UART Interrupt received"
    ELSE IF irq_id = 27 THEN "Timer Interrupt received"
    ELSE "Received IRQ"

\* the vector stub saves the frame and calls the handler of its context
IrqTrap(c, vector) ==
    /\ irq[c].pc \in {"running", "resumed"}
    /\ irq' = [irq EXCEPT ![c] = [pc |-> "get_interrupt_id", vector |-> vector,
                                  irq_id |-> 0, log |-> <<>>]]
    /\ UNCHANGED <<queue, gicregs, smcVars, resolved, mmio, boot, trap>>

\* let irq_id = gic::get_interrupt_id(); if irq_id == 1023 { return; }
IrqAcknowledge(c, iar) ==
    /\ irq[c].pc = "get_interrupt_id"
    /\ LET irq_id == acknowledge_interrupt(iar)
       IN  irq' = [irq EXCEPT ![c].irq_id = irq_id,
                              ![c].log = Append(@, Event("acknowledge", irq_id)),
                              ![c].pc = IF irq_id = 1023 THEN "resumed"
                                        ELSE "handle_interrupt"]
    /\ UNCHANGED <<queue, gicregs, smcVars, resolved, mmio, boot, trap>>

\* handle_interrupt(irq_id);
IrqHandle(c) ==
    /\ irq[c].pc = "handle_interrupt"
    /\ irq' = [irq EXCEPT ![c].log = Append(@, Event(handle_interrupt(irq[c].irq_id),
                                                     irq[c].irq_id)),
                          ![c].pc = "end_of_interrupt"]
    /\ UNCHANGED <<queue, gicregs, smcVars, resolved, mmio, boot, trap>>

\* mutant of IrqEnd: the handler returns without the end-of-interrupt write
IrqEnd_NoWrite(c) ==
    /\ irq[c].pc = "end_of_interrupt"
    /\ irq' = [irq EXCEPT ![c].pc = "resumed"]
    /\ UNCHANGED <<queue, gicregs, smcVars, resolved, mmio, boot, trap>>

\* gic::end_of_interrupt(irq_id); then the stub restores the frame and resumes
IrqEnd(c) ==
    /\ irq[c].pc = "end_of_interrupt"
    /\ irq' = [irq EXCEPT ![c].log = Append(@, Event("end_interrupt", irq[c].irq_id)),
                          ![c].pc = "resumed"]
    /\ UNCHANGED <<queue, gicregs, smcVars, resolved, mmio, boot, trap>>

NextIrq ==
    \/ \E c \in IrqCores, vector \in IrqVectors : IrqTrap(c, vector)
    \/ \E c \in IrqCores, iar \in IarValues : IrqAcknowledge(c, iar)
    \/ \E c \in IrqCores : IrqHandle(c)
    \/ \E c \in IrqCores : IrqEnd(c)

SpecIrq == InitSmc /\ [][NextIrq]_vars

Whats(log) == {log[k].what : k \in 1..Len(log)}

Dispatches == {"UART Interrupt received", "Timer Interrupt received", "Received IRQ"}

\* C11 - Spurious acknowledge: when acknowledge returns an id >= 1022 (1022
\* or 1023), the IRQ handler makes no end() call for that id and dispatches
\* no handler.
C11_SpuriousIdNeverEnded ==
    \A c \in IrqCores :
       (irq[c].log # <<>> /\ irq[c].log[1].id >= 1022)
       => /\ "end_interrupt" \notin Whats(irq[c].log)
          /\ Whats(irq[c].log) \cap Dispatches = {}

\* C12 - For every IRQ trap, end(id) is called exactly once for each
\* acknowledged non-spurious id (id < 1022), after the id's handler has run,
\* on the core that acknowledged it, and end is never called for an id that
\* was not acknowledged.
C12_EndOncePerAcknowledgedId ==
    \A c \in IrqCores :
       LET log == irq[c].log
       IN  /\ \A k \in 1..Len(log) :
                log[k].what = "end_interrupt"
                => /\ k = 3
                   /\ log[1] = Event("acknowledge", log[k].id)
                   /\ log[2] = Event(handle_interrupt(log[k].id), log[k].id)
           /\ (irq[c].pc = "resumed" /\ log # <<>> /\ log[1].id < 1022)
              => /\ Len(log) = 3
                 /\ log[1].what = "acknowledge"
                 /\ log[3] = Event("end_interrupt", log[1].id)

C12_Witness ==
    \E c \in IrqCores :
       /\ irq[c].pc = "resumed"
       /\ irq[c].vector = "lower_el_aarch64_irq"
       /\ irq[c].log = <<Event("acknowledge", 33), Event("UART Interrupt received", 33),
                         Event("end_interrupt", 33)>>
       /\ \E d \in IrqCores \ {c} : irq[d].pc = "end_of_interrupt" /\ irq[d].irq_id = 27

----------------------------------------------------------------------------
(* Software-generated interrupts (gic.rs), checked under SpecGic *)

SgiCalls == {"send_sgi_to_core", "send_sgi_to_all", "send_sgi_to_others"}

\* C13 - SGI id bounds: send_sgi_to_core, send_sgi_to_all and
\* send_sgi_to_others called with sgi_id >= 16 return the invalid-SGI-id
\* error and write nothing to the SGI issue register ICC_SGI1R_EL1.
C13_SgiIdBounds ==
    (mmio.op \in SgiCalls /\ mmio.id >= 16)
    => /\ ~mmio.ok
       /\ mmio.err = "Invalid SGI ID: must be 0-15"
       /\ mmio.writes = {}

C13_Witness ==
    /\ mmio.op = "send_sgi_to_others"
    /\ mmio.id = 16
    /\ mmio.core = Mpidr(1, 0)
    /\ ~mmio.ok
    /\ mmio.writes = {}

\* C14 - send_sgi_to_core with a valid sgi_id fails, and issues no SGI, for
\* every target core position whose cluster is >= the cluster count or
\* which is >= the number of cores.
C14_InvalidSgiTargetRejected ==
    (mmio.op = "send_sgi_to_core" /\ mmio.id < 16
       /\ (mmio.target \div PLATFORM_MAX_CPUS_PER_CLUSTER >= PLATFORM_CLUSTER_COUNT
           \/ mmio.target >= PLATFORM_CLUSTER_COUNT * PLATFORM_MAX_CPUS_PER_CLUSTER))
    => /\ ~mmio.ok
       /\ mmio.writes = {}

----------------------------------------------------------------------------
(* Unmatched SMC function identifiers, checked under SpecSmcSeq *)

\* C15 - For every function identifier other than VERSION, CPU_ON, CPU_OFF,
\* AFFINITY_INFO and SYSTEM_RESET the handler returns the not-supported code
\* 0xFFFFFFFF and changes no entry of CORE_STATES and of CORE_BOOT_PARAMS.
C15_UnknownFunctionNotSupported ==
    [][\A c \in Cores :
         (pc[c] = "handle_smc" /\ pc'[c] # "handle_smc"
            /\ regs[c].x0 \notin {SMC_PSCI_VERSION, SMC_CPU_ON, SMC_CPU_OFF,
                                  SMC_AFFINITY_INFO, SMC_SYSTEM_RESET})
         => /\ pc'[c] = "idle"
            /\ ev'.ret = <<65535, 65535>>
            /\ CORE_STATES' = CORE_STATES
            /\ CORE_BOOT_PARAMS' = CORE_BOOT_PARAMS]_vars

C15_Witness ==
    /\ ev.op = "UNKNOWN"
    /\ ev.ret = <<65535, 65535>>
    /\ ev.a0 = 2
    /\ CORE_BOOT_PARAMS[2] = [entry_point |-> 1, context_id |-> 17]

----------------------------------------------------------------------------
(* kernel_init (main.rs) on each core: disable_interrupts, arch::init,     *)
(* which is GicV3Driver::init_secondary_core (gic.rs), enable_interrupts   *)
(* and the SGI loop.  boot.GICR_WAKER[r] is the wake register of the       *)
(* redistributor of core position r.                                       *)

\* the redistributor a base address selects
RedistributorOf(gicr_base) == (gicr_base - GICR_BASE) \div GICR_STRIDE

BootStep(c, fields) ==
    /\ boot' = [boot EXCEPT !.core[c] =
                  [f \in DOMAIN @ |-> IF f \in DOMAIN fields THEN fields[f] ELSE @[f]]]
    /\ UNCHANGED <<queue, gicregs, smcVars, resolved, mmio, irq, trap>>

\* what the firmware left in a wake register before any core runs kernel_init
FirmwareLeavesWaker(r, waker) ==
    /\ \A c \in BootCores : boot.core[c].pc = "kernel_init"
    /\ boot.GICR_WAKER[r] # waker
    /\ boot' = [boot EXCEPT !.GICR_WAKER[r] = waker]
    /\ UNCHANGED <<queue, gicregs, smcVars, resolved, mmio, irq, trap>>

\* the controller follows the sleep request: ChildrenAsleep moves to ProcessorSleep
RedistributorFollows(r) ==
    /\ boot.GICR_WAKER[r].ChildrenAsleep # boot.GICR_WAKER[r].ProcessorSleep
    /\ boot' = [boot EXCEPT !.GICR_WAKER[r].ChildrenAsleep =
                                boot.GICR_WAKER[r].ProcessorSleep]
    /\ UNCHANGED <<queue, gicregs, smcVars, resolved, mmio, irq, trap>>

\* arch::disable_interrupts(): msr daifset, #2
DisableInterrupts(c) ==
    /\ boot.core[c].pc = "kernel_init"
    /\ BootStep(c, [pc |-> "init_secondary_core", masked |-> TRUE])

\* if GIC_INITIALIZED.load(Relaxed) { return; }
InitLoadFlag(c) ==
    /\ boot.core[c].pc = "init_secondary_core"
    /\ IF boot.GIC_INITIALIZED
       THEN BootStep(c, [pc |-> "enable_interrupts", init |-> "returned early"])
       ELSE BootStep(c, [pc |-> "enable_system_registers"])

\* enable_system_registers(); let gicr_base = get_gicr_base_for_core();
EnableSystemRegisters(c) ==
    /\ boot.core[c].pc = "enable_system_registers"
    /\ BootStep(c, [pc |-> "wake_redistributor", sre |-> TRUE,
                    gicr_base |-> get_gicr_base_for_core(c)])

\* wake_redistributor: the first read of GICR_WAKER and the test of ProcessorSleep
WakeRead(c) ==
    /\ boot.core[c].pc = "wake_redistributor"
    /\ LET waker == boot.GICR_WAKER[RedistributorOf(boot.core[c].gicr_base)]
       IN  IF waker.ProcessorSleep
           THEN BootStep(c, [pc |-> "wake_write", waker |-> waker,
                             seen_awake |-> ~waker.ChildrenAsleep])
           ELSE BootStep(c, [pc |-> "init_sgi_ppi", waker |-> waker, woke |-> TRUE,
                             seen_awake |-> ~waker.ChildrenAsleep])

\* write_volatile(GICR_WAKER, waker & !GICR_WAKER_PROCESSOR_SLEEP);
\* ChildrenAsleep is read-only
WakeWrite(c) ==
    /\ boot.core[c].pc = "wake_write"
    /\ boot' = [boot EXCEPT
                  !.GICR_WAKER[RedistributorOf(boot.core[c].gicr_base)].ProcessorSleep = FALSE,
                  !.core[c].pc = "wake_poll",
                  !.core[c].seen_awake = FALSE]
    /\ UNCHANGED <<queue, gicregs, smcVars, resolved, mmio, irq, trap>>

\* loop { status = read; if status & CHILDREN_ASLEEP == 0 { break; } delay }
WakePoll(c) ==
    /\ boot.core[c].pc = "wake_poll"
    /\ LET status == boot.GICR_WAKER[RedistributorOf(boot.core[c].gicr_base)]
       IN  IF ~status.ChildrenAsleep
           THEN BootStep(c, [pc |-> "init_sgi_ppi", woke |-> TRUE, seen_awake |-> TRUE])
           ELSE BootStep(c, [pc |-> "wake_poll"])

\* init_sgi_ppi(gicr_base): group, priorities and enables of this redistributor
InitSgiPpi(c) ==
    /\ boot.core[c].pc = "init_sgi_ppi"
    /\ boot' = [boot EXCEPT !.sgi_ppi = @ \cup {RedistributorOf(boot.core[c].gicr_base)},
                            !.core[c].pc = "set_priority_mask"]
    /\ UNCHANGED <<queue, gicregs, smcVars, resolved, mmio, irq, trap>>

\* set_priority_mask(0xF0): msr ICC_PMR_EL1
SetPriorityMask(c) ==
    /\ boot.core[c].pc = "set_priority_mask"
    /\ BootStep(c, [pc |-> "set_binary_point", pmr |-> 240])

\* set_binary_point(0): msr ICC_BPR1_EL1
SetBinaryPoint(c) ==
    /\ boot.core[c].pc = "set_binary_point"
    /\ BootStep(c, [pc |-> "enable_group1_interrupts", bpr |-> 0])

\* enable_group1_interrupts(): msr ICC_IGRPEN1_EL1, 1
EnableGroup1Interrupts(c) ==
    /\ boot.core[c].pc = "enable_group1_interrupts"
    /\ BootStep(c, [pc |-> "store_flag", igrpen1 |-> TRUE])

\* GIC_INITIALIZED.store(true, Relaxed); and the return
InitStoreFlag(c) ==
    /\ boot.core[c].pc = "store_flag"
    /\ boot' = [boot EXCEPT !.GIC_INITIALIZED = TRUE,
                            !.core[c].pc = "enable_interrupts",
                            !.core[c].init = "returned"]
    /\ UNCHANGED <<queue, gicregs, smcVars, resolved, mmio, irq, trap>>

\* arch::enable_interrupts(): msr daifclr, #2; then the loop of SGI sends
EnableInterrupts(c) ==
    /\ boot.core[c].pc = "enable_interrupts"
    /\ BootStep(c, [pc |-> "loop", masked |-> FALSE])

WakerValues == {Waker(ps, ca) : ps \in BOOLEAN, ca \in BOOLEAN}

NextBoot ==
    \/ \E r \in DOMAIN boot.GICR_WAKER, waker \in WakerValues : FirmwareLeavesWaker(r, waker)
    \/ \E r \in DOMAIN boot.GICR_WAKER : RedistributorFollows(r)
    \/ \E c \in BootCores : DisableInterrupts(c)
    \/ \E c \in BootCores : InitLoadFlag(c)
    \/ \E c \in BootCores : EnableSystemRegisters(c)
    \/ \E c \in BootCores : WakeRead(c)
    \/ \E c \in BootCores : WakeWrite(c)
    \/ \E c \in BootCores : WakePoll(c)
    \/ \E c \in BootCores : InitSgiPpi(c)
    \/ \E c \in BootCores : SetPriorityMask(c)
    \/ \E c \in BootCores : SetBinaryPoint(c)
    \/ \E c \in BootCores : EnableGroup1Interrupts(c)
    \/ \E c \in BootCores : InitStoreFlag(c)
    \/ \E c \in BootCores : EnableInterrupts(c)

SpecBoot == InitSmc /\ [][NextBoot]_vars

\* the wake register of the redistributor of core c
OwnWaker(c) == boot.GICR_WAKER[s32_core_pos_by_mpidr(c)]

\* the CPU interface of core c is Ready
Ready(c) == boot.core[c].pmr = 240 /\ boot.core[c].igrpen1

\* C16 - Redistributor wake handshake: whenever wake_redistributor has
\* returned on a core, the ProcessorSleep bit of that core's redistributor is
\* clear and the core has read ChildrenAsleep as clear since the bit was last
\* written or, with nothing to write, in its read of the register, whatever
\* the register held when the operation started.
C16_WakeHandshake ==
    \A c \in BootCores :
       boot.core[c].woke
       => /\ ~OwnWaker(c).ProcessorSleep
          /\ boot.core[c].seen_awake

\* C17 - Per-core priming: for every core that runs init_secondary_core, in
\* any interleaving with the other cores, when its call has returned that
\* core's own redistributor is awake and its own CPU interface is Ready
\* (priority mask set, Group-1 signaling enabled).
C17_PerCorePriming ==
    \A c \in BootCores :
       boot.core[c].init # "not called"
       => /\ OwnWaker(c) = Waker(FALSE, FALSE)
          /\ Ready(c)

\* C18 - On every core, IRQs are unmasked at the processor only after that
\* core's CPU interface has reached Ready.
C18_UnmaskOnlyWhenReady ==
    \A c \in BootCores : ~boot.core[c].masked => Ready(c)

----------------------------------------------------------------------------
(* The distributor.  No function of the driver writes GICD_CTLR or any     *)
(* other configuration register of the distributor: gic::init, which       *)
(* s32g3::init calls, is not defined, and kernel_init reaches neither.     *)
(* boot.distributor therefore stays as the reset left it, and the per-id   *)
(* calls of SpecGic do not look at it.                                     *)

\* C19 - The distributor goes Disabled -> Configured -> Enabled once,
\* performed by core position 0, and no core issues an enable, disable or
\* priority operation on a shared interrupt before that has completed.
C19_DistributorEnabledBeforeSpiCalls ==
    (mmio.op \in SpiCalls /\ mmio.ok) => boot.distributor = "Enabled"

----------------------------------------------------------------------------
(* Vector stubs (exceptions.rs): the 16 entries of exception_vector_table. *)
(* Four of them build a 17 x 16 byte frame around the call of the handler, *)
(* the other twelve are "bl handler; eret".  Register contents are small   *)
(* numbers; trap.frame[w] is the 8-byte word at [sp + 8 * w] of the frame. *)

\* vector entry -> the handler its stub calls
VectorTable ==
    [el1_sp0_sync |-> "exception_handler_sp0_sync",
     el1_sp0_irq |-> "exception_handler_sp0_irq",
     el1_sp0_fiq |-> "exception_handler_sp0_fiq",
     el1_sp0_serror |-> "exception_handler_sp0_serror",
     el1_sync |-> "exception_handler_sync",
     el1_irq |-> "exception_handler_irq",
     el1_fiq |-> "exception_handler_fiq",
     el1_serror |-> "exception_handler_serror",
     lower_el_aarch64_sync |-> "exception_handler_lower_sync",
     lower_el_aarch64_irq |-> "exception_handler_lower_irq",
     lower_el_aarch64_fiq |-> "exception_handler_lower_fiq",
     lower_el_aarch64_serror |-> "exception_handler_lower_serror",
     lower_el_aarch32_sync |-> "exception_handler_lower32_sync",
     lower_el_aarch32_irq |-> "exception_handler_lower32_irq",
     lower_el_aarch32_fiq |-> "exception_handler_lower32_fiq",
     lower_el_aarch32_serror |-> "exception_handler_lower32_serror"]

\* the stubs with the save and restore sequences
FrameStubs == {"el1_sp0_sync", "el1_sp0_irq", "el1_sync", "el1_irq"}

\* sub sp, sp, #16 * 17
FrameBytes == 16 * 17

\* the address bl leaves in x30: the instruction after the call in the stub
StubReturnAddress == 20480

\* what a register holds after the compiled handler has used it
Scratch == 9999

\* stp x0, x1 .. stp x28, x29; mrs x21, elr_el1; mrs x22, spsr_el1;
\* stp x30, x21, [sp, #16 * 15]; str x22, [sp, #16 * 16]
SaveFrame(cpu, frame) ==
    LET pairs == [w \in 0..33 |-> IF w < 30 THEN cpu.x[w] ELSE frame[w]]
        x     == [cpu.x EXCEPT ![21] = cpu.elr_el1, ![22] = cpu.spsr_el1]
    IN  [cpu   |-> [cpu EXCEPT !.sp = @ - FrameBytes, !.x = x],
         frame |-> [pairs EXCEPT ![30] = x[30], ![31] = x[21], ![32] = x[22]]]

\* ldp x30, x21, [sp, #16 * 15]; ldr x22, [sp, #16 * 16]; msr elr_el1, x21;
\* msr spsr_el1, x22; ldp x0, x1 .. ldp x28, x29; add sp, sp, #16 * 17
RestoreFrame(cpu, frame) ==
    LET x == [cpu.x EXCEPT ![30] = frame[30], ![21] = frame[31], ![22] = frame[32]]
    IN  [cpu EXCEPT !.elr_el1 = x[21], !.spsr_el1 = x[22],
                    !.x = [i \in 0..30 |-> IF i < 30 THEN frame[i] ELSE x[i]],
                    !.sp = @ + FrameBytes]

\* register contents of the interrupted code: x_i = base + i
Bases == {100, 200}

\* the registers x0..x18 a handler compiled for the C calling convention
\* may leave changed
Clobbers == {{}, {0, 1}, {9, 16, 17}, 0..18}

\* the exception is taken: ELR_EL1 and SPSR_EL1 get the return address and
\* the processor state, execution continues at the vector entry
\* exception classes ESR_EL1 reports (bits 31..26): unknown reason, SVC from
\* AArch64 (0x15), SMC from AArch64 (0x17), instruction abort (0x21), data
\* abort (0x24, 0x25)
ExceptionClasses == {0, 21, 23, 33, 36, 37}

\* what exception_handler_sync prints for an exception class
SyncClassLine(ec) ==
    IF ec = 21 THEN "SVC instruction execution in AArch64"
    ELSE IF ec = 36 THEN "Data abort from current EL"
    ELSE "Unknown exception class: 0x"

\* the lines a handler puts on the UART before it returns
HandlerOutput(handler, ec) ==
    CASE handler = "exception_handler_sync" ->
           <<"Synchronous Exception: ESR=0x", SyncClassLine(ec)>>
      [] handler = "exception_handler_sp0_sync" ->
           <<"SP0 Synchronous Exception", "Synchronous Exception: ESR=0x", SyncClassLine(ec)>>
      [] handler = "exception_handler_lower_sync" ->
           <<"Lower AArch64 Synchronous Exception", "Synchronous Exception: ESR=0x",
             SyncClassLine(ec)>>
      [] handler = "exception_handler_lower32_sync" ->
           <<"Lower AArch32 Synchronous Exception", "Synchronous Exception: ESR=0x",
             SyncClassLine(ec)>>
      [] handler = "exception_handler_irq" -> <<>>
      [] handler = "exception_handler_sp0_irq" -> <<"SP0 IRQ Exception">>
      [] handler = "exception_handler_lower_irq" -> <<"Lower AArch64 IRQ Exception">>
      [] handler = "exception_handler_lower32_irq" -> <<"Lower AArch32 IRQ Exception">>
      [] handler = "exception_handler_fiq" -> <<"FIQ Exception">>
      [] handler = "exception_handler_sp0_fiq" -> <<"SP0 FIQ Exception">>
      [] handler = "exception_handler_lower_fiq" -> <<"Lower AArch64 FIQ Exception">>
      [] handler = "exception_handler_lower32_fiq" -> <<"Lower AArch32 FIQ Exception">>
      [] handler = "exception_handler_serror" -> <<"SError Exception">>
      [] handler = "exception_handler_sp0_serror" -> <<"SP0 SError Exception">>
      [] handler = "exception_handler_lower_serror" -> <<"Lower AArch64 SError Exception">>
      [] OTHER -> <<"Lower AArch32 SError Exception">>

\* the functions a handler calls, directly or through the handler it wraps;
\* no arm of exception_handler_sync calls anything but the console
HandlerCallees(handler) ==
    IF handler = "exception_handler_sync" THEN {"uart::puts", "print_hex"}
    ELSE IF handler \in {"exception_handler_sp0_sync", "exception_handler_lower_sync",
                         "exception_handler_lower32_sync"}
    THEN {"uart::puts", "print_hex", "exception_handler_sync"}
    ELSE IF handler = "exception_handler_irq"
    THEN {"gic::get_interrupt_id", "handle_interrupt", "gic::end_of_interrupt"}
    ELSE IF handler \in {"exception_handler_sp0_irq", "exception_handler_lower_irq",
                         "exception_handler_lower32_irq"}
    THEN {"uart::puts", "exception_handler_irq", "gic::get_interrupt_id",
          "handle_interrupt", "gic::end_of_interrupt"}
    ELSE {"uart::puts"}

TakeException(vector, base, ec) ==
    /\ trap.at \in {"running", "resumed"}
    /\ LET cpu == Registers([i \in 0..30 |-> base + i], 8 * base, 0, 0, 3 * base, 5)
       IN  trap' = [at |-> "stub", vector |-> vector,
                    cpu |-> [cpu EXCEPT !.elr_el1 = cpu.pc, !.spsr_el1 = cpu.pstate],
                    frame |-> trap.frame, entry |-> cpu,
                    esr_ec |-> ec, uart |-> <<>>, calls |-> {}]
    /\ UNCHANGED <<queue, gicregs, smcVars, resolved, mmio, irq, boot>>

\* the stub up to and including "bl handler"
StubEntry ==
    /\ trap.at = "stub"
    /\ LET saved == IF trap.vector \in FrameStubs
                    THEN SaveFrame(trap.cpu, trap.frame)
                    ELSE [cpu |-> trap.cpu, frame |-> trap.frame]
       IN  trap' = [trap EXCEPT !.at = VectorTable[trap.vector],
                                !.cpu = [saved.cpu EXCEPT !.x[30] = StubReturnAddress],
                                !.frame = saved.frame]
    /\ UNCHANGED <<queue, gicregs, smcVars, resolved, mmio, irq, boot>>

\* the handler runs and returns to the stub
HandlerReturns(clobbered) ==
    /\ trap.at \notin {"running", "stub", "restore", "resumed"}
    /\ trap' = [trap EXCEPT !.at = "restore",
                            !.uart = HandlerOutput(trap.at, trap.esr_ec),
                            !.calls = HandlerCallees(trap.at),
                            !.cpu.x = [i \in 0..30 |-> IF i \in clobbered THEN Scratch
                                                       ELSE @[i]]]
    /\ UNCHANGED <<queue, gicregs, smcVars, resolved, mmio, irq, boot>>

\* the rest of the stub: the restore sequence where there is one, and eret
StubExit ==
    /\ trap.at = "restore"
    /\ LET cpu == IF trap.vector \in FrameStubs
                  THEN RestoreFrame(trap.cpu, trap.frame)
                  ELSE trap.cpu
       IN  trap' = [trap EXCEPT !.at = "resumed",
                                !.cpu = [cpu EXCEPT !.pc = cpu.elr_el1,
                                                    !.pstate = cpu.spsr_el1]]
    /\ UNCHANGED <<queue, gicregs, smcVars, resolved, mmio, irq, boot>>

NextTrap ==
    \/ \E vector \in DOMAIN VectorTable, base \in Bases, ec \in ExceptionClasses :
          TakeException(vector, base, ec)
    \/ StubEntry
    \/ \E clobbered \in Clobbers : HandlerReturns(clobbered)
    \/ StubExit

SpecTrap == InitSmc /\ [][NextTrap]_vars

\* C20 - Trap-frame save/restore: for each of the 16 vector entries, when
\* the handler has returned and execution resumes, x0..x30, the stack
\* pointer, the return address and the processor state are those of the
\* exception entry.
C20_TrapFrameRestored ==
    trap.at = "resumed"
    => /\ \A i \in 0..30 : trap.cpu.x[i] = trap.entry.x[i]
       /\ trap.cpu.sp = trap.entry.sp
       /\ trap.cpu.pc = trap.entry.pc
       /\ trap.cpu.pstate = trap.entry.pstate

----------------------------------------------------------------------------
(* Fatal exceptions, checked under SpecTrap *)

\* the synchronous entries for exceptions taken from the kernel's own level
KernelSyncVectors == {"el1_sp0_sync", "el1_sync"}

\* the classes exception_handler_sync has an arm for
HandledClasses == {21, 36}

FiqAndSErrorVectors ==
    {"el1_sp0_fiq", "el1_fiq", "lower_el_aarch64_fiq", "lower_el_aarch32_fiq",
     "el1_sp0_serror", "el1_serror", "lower_el_aarch64_serror", "lower_el_aarch32_serror"}

\* C21 - A synchronous exception taken at kernel level whose exception class
\* is not a handled one is fatal: its handler never returns to the stub and
\* execution never resumes at the faulting instruction.
C21_UnknownSyncIsFatal ==
    (trap.vector \in KernelSyncVectors /\ trap.esr_ec \notin HandledClasses)
    => trap.at \notin {"restore", "resumed"}

\* C22 - Every FIQ and every SError trap, from any of the four source
\* contexts, is fatal: after its diagnostics the handler halts and execution
\* never resumes the interrupted code.
C22_FiqAndSErrorAreFatal ==
    trap.vector \in FiqAndSErrorVectors => trap.at \notin {"restore", "resumed"}

----------------------------------------------------------------------------
(* Core lifecycle, checked under SpecSmcSeq *)

\* the power state a CORE_STATES entry stands for: the table holds one flag
\* per core, false at reset
CorePowerState(t) == IF CORE_STATES[t] THEN "On" ELSE "Off"

\* C23 - CorePowerState lifecycle: every core's state starts Off and changes
\* only by leaving Off (to Pending) on a successful CPU_ON targeting it, and by
\* going to Off on a CPU_OFF issued by that core itself; a successful CPU_ON
\* for an Off target does make that transition.
C23_CorePowerStateLifecycle ==
    [][\A t \in Slots :
         /\ CorePowerState(t)' # CorePowerState(t)
              => \E c \in Cores :
                   \/ /\ SmcReturns(c, SMC_CPU_ON)
                      /\ ev'.ret = RET_SUCCESS
                      /\ ev'.slot = t
                      /\ CorePowerState(t) = "Off"
                   \/ /\ SmcReturns(c, SMC_CPU_OFF)
                      /\ plat_core_pos_by_mpidr(c) = Ok(t)
                      /\ CorePowerState(t)' = "Off"
         /\ \A c \in Cores :
              (SmcReturns(c, SMC_CPU_ON) /\ ev'.ret = RET_SUCCESS /\ ev'.slot = t)
                => CorePowerState(t)' # "Off"]_vars

\* C24 - The boot parameters a CPU_ON records are read by the target core
\* only after a CPU_ON has released it, and once per CPU_ON: the core of an
\* index has read its parameters at most once since the last successful
\* CPU_ON for it, and not at all while no CPU_ON has succeeded for it.
C24_BootParamsReadOncePerCpuOn ==
    \A t \in Slots : reads[t] <= IF histOn[t] THEN 1 ELSE 0

----------------------------------------------------------------------------
(* Core identity, checked under SpecAff *)

\* C25 - Every component identifies the executing core by the resolver's
\* index: for every affinity value the resolver accepts, the index the
\* secure-monitor bridge uses for the calling core and the index cpu_id
\* returns both equal the resolved index, and the resolved index is a slot
\* of the core-state table.
C25_OneCoreIndex ==
    (resolved.op \in {"resolve", "round_trip"} /\ resolved.result.ok)
    => /\ resolved.core_id = resolved.result.val
       /\ resolved.cpu_id = resolved.result.val
       /\ resolved.result.val \in Slots

----------------------------------------------------------------------------
(* Failing CPU_ON calls, checked under SpecSmcSeq *)

\* C26 - A CPU_ON that fails (InvalidTarget or AlreadyOn) leaves every core
\* state and every boot-parameter entry unchanged; in particular the boot
\* parameters of a core that a CPU_ON has already turned on, and that has not
\* run CPU_OFF since, are not overwritten.
C26_FailedCpuOnChangesNothing ==
    [][/\ \A c \in Cores :
            (SmcReturns(c, SMC_CPU_ON) /\ ev'.ret # RET_SUCCESS)
              => /\ ev'.ret \in {RET_INVALID_PARAMETERS, RET_ALREADY_ON}
                 /\ UNCHANGED <<CORE_STATES, CORE_BOOT_PARAMS>>
       /\ \A t \in Slots :
            histOn[t] => CORE_BOOT_PARAMS'[t] = CORE_BOOT_PARAMS[t]]_vars

----------------------------------------------------------------------------
(* Two cores turning the same core on at once *)

\* every core issues one CPU_ON for core 2, each with a pair of its choice;
\* the calls overlap: none starts after one has returned
NextCpuOnRace ==
    \/ \E c \in Cores : \E p \in ParamPairs :
          /\ ev = NoEvent
          /\ SmcTrap(c, SMC_CPU_ON, 2, p[1], p[2])
          /\ UNCHANGED gicVars
    \/ \E c \in Cores : CpuOnCheck(c) /\ UNCHANGED gicVars
    \/ \E c \in Cores : CpuOnStoreEntryPoint(c) /\ UNCHANGED gicVars
    \/ \E c \in Cores : CpuOnStoreContextId(c) /\ UNCHANGED gicVars
    \/ \E c \in Cores : CpuOnReturn(c) /\ UNCHANGED gicVars

SpecCpuOnRace == InitSmc /\ [][NextCpuOnRace]_vars

\* the boot-parameter entries one single call can have written
SingleCallParams ==
    {[entry_point |-> p[1], context_id |-> p[2]] : p \in ParamPairs}

\* C27 - When cores issue CPU_ON for the same Off target concurrently, at
\* most one call returns success, and once the calls are over the target's
\* boot parameters are the pair of one single call, never the entry point of
\* one call with the context id of another.
C27_ConcurrentCpuOn ==
    [][/\ \A c \in Cores :
            (SmcReturns(c, SMC_CPU_ON) /\ ev'.ret = RET_SUCCESS) => ~histOn[ev'.slot]
       /\ (AllQuiet' /\ histOn'[2]) => CORE_BOOT_PARAMS'[2] \in SingleCallParams]_vars

----------------------------------------------------------------------------
(* handle_smc and the IRQs of the core that runs it *)

\* handle_smc is entered with DAIF.I as the calling context has it: set when
\* the call comes from an exception vector, clear when kernel code calls the
\* function after kernel_init has run enable_interrupts.  The handler itself
\* never writes DAIF.
SmcEnter(c, masked, function_id, arg0, arg1, arg2) ==
    /\ SmcTrap(c, function_id, arg0, arg1, arg2)
    /\ boot' = [boot EXCEPT !.core[c].masked = masked]
    /\ UNCHANGED <<resolved, mmio, irq, trap, gicregs, queue>>

\* core c is not inside an IRQ handler, so its interrupted code advances
NoIrqInProgress(c) == irq[c].pc \in {"running", "resumed"}

\* an IRQ is taken only while DAIF.I is clear
IrqTaken(c, vector) == ~boot.core[c].masked /\ IrqTrap(c, vector)

\* the core whose calls and IRQs are followed
LifecycleCores == {Primary}

LifecycleCalls ==
    {<<SMC_CPU_ON, 2, p[1], p[2]>> : p \in ParamPairs} \cup {<<SMC_CPU_OFF, 0, 0, 0>>}

\* interrupt ids acknowledged while handle_smc is interrupted
LifecycleIarValues == {27, 1023}

NextSmcIrq ==
    \/ \E c \in LifecycleCores, masked \in BOOLEAN : \E call \in LifecycleCalls :
          NoIrqInProgress(c) /\ SmcEnter(c, masked, call[1], call[2], call[3], call[4])
    \/ \E c \in LifecycleCores : NoIrqInProgress(c) /\ CpuOnCheck(c) /\ UNCHANGED gicVars
    \/ \E c \in LifecycleCores :
          NoIrqInProgress(c) /\ CpuOnStoreEntryPoint(c) /\ UNCHANGED gicVars
    \/ \E c \in LifecycleCores :
          NoIrqInProgress(c) /\ CpuOnStoreContextId(c) /\ UNCHANGED gicVars
    \/ \E c \in LifecycleCores : NoIrqInProgress(c) /\ CpuOnReturn(c) /\ UNCHANGED gicVars
    \/ \E c \in LifecycleCores : NoIrqInProgress(c) /\ CpuOff(c) /\ UNCHANGED gicVars
    \/ \E c \in LifecycleCores : IrqTaken(c, "el1_irq")
    \/ \E c \in LifecycleCores, iar \in LifecycleIarValues : IrqAcknowledge(c, iar)
    \/ \E c \in LifecycleCores : IrqHandle(c)
    \/ \E c \in LifecycleCores : IrqEnd(c)

SpecSmcIrq == InitSmc /\ [][NextSmcIrq]_vars

\* positions of handle_smc: before the state check or the CPU_OFF store, and
\* between the state check of CPU_ON and its last store
BetweenCheckAndWrite == {"cpu_on_store", "cpu_on_stored_entry", "cpu_on_stored_context"}

InsideLifecycleUpdate == {"handle_smc"} \cup BetweenCheckAndWrite

----------------------------------------------------------------------------
(* The registers behind the per-interrupt calls.  GICD_ISENABLER and       *)
(* GICD_ICENABLER are write-one-to-set and write-one-to-clear (a zero bit   *)
(* written has no effect); the priority registers are byte-accessible      *)
(* memory.  One core runs init_sgi_ppi on its redistributor while other     *)
(* cores issue per-interrupt calls.                                        *)

\* init_sgi_ppi loops over the 32 SGI and PPI ids; its first MaxPrimed
\* iterations are followed
MaxPrimed == 8

\* the core that runs init_sgi_ppi, and the SGI frame of its redistributor
PrimingCore == Primary

SgiFrame == get_gicr_base_for_core(PrimingCore) + GICR_SGI_OFFSET

\* the cores that issue per-interrupt calls meanwhile
CallingCores == {Mpidr(1, 0)}

\* the bits set in a u32
BitsOf(value) ==
    {b \in 0..31 : IF b < 16 THEN (value[2] \div (2 ^ b)) % 2 = 1
                   ELSE (value[1] \div (2 ^ (b - 16))) % 2 = 1}

\* the interrupt ids a write to word reg_addr of an enable register names
IdsOfWord(reg_addr, first, value) ==
    {32 * ((reg_addr - first) \div 4) + b : b \in BitsOf(value)}

\* what one volatile store of the driver does to the registers
Stored(w) ==
    IF w.width = 32 /\ w.addr >= GICD_BASE + GICD_ISENABLER
                    /\ w.addr < GICD_BASE + GICD_ISENABLER + 128
    THEN [gicregs EXCEPT !.enabled =
             @ \cup (IdsOfWord(w.addr, GICD_BASE + GICD_ISENABLER, w.value)
                       \cap TrackedSpis)]
    ELSE IF w.width = 32 /\ w.addr >= GICD_BASE + GICD_ICENABLER
                         /\ w.addr < GICD_BASE + GICD_ICENABLER + 128
    THEN [gicregs EXCEPT !.enabled =
             @ \ IdsOfWord(w.addr, GICD_BASE + GICD_ICENABLER, w.value)]
    ELSE IF w.width = 8 /\ (w.addr - (GICD_BASE + GICD_IPRIORITYR)) \in TrackedSpis
    THEN [gicregs EXCEPT !.priority[w.addr - (GICD_BASE + GICD_IPRIORITYR)] = w.value]
    ELSE IF w.width = 8 /\ (w.addr - (SgiFrame + GICR_IPRIORITYR)) \in 0..31
    THEN [gicregs EXCEPT !.sgi_priority[w.addr - (SgiFrame + GICR_IPRIORITYR)] = w.value]
    ELSE gicregs

\* the registers after the stores of the call just made, which was about ids
AfterCall(writes, ids) ==
    [(IF writes = {} THEN gicregs ELSE Stored(CHOOSE w \in writes : TRUE))
       EXCEPT !.about = ids]

\* write_volatile(sgi_base + GICR_IGROUPR0, 0xFFFFFFFF)
InitSgiPpiGroup ==
    /\ gicregs.at = "init_sgi_ppi"
    /\ gicregs' = [gicregs EXCEPT !.sgi_group1 = 0..31, !.at = "read_volatile",
                                  !.i = 0, !.about = 0..31]
    /\ UNCHANGED <<smcVars, resolved, mmio, laterVars, queue>>

\* let prio = read_volatile(addr as *const u32), addr the word of byte i
InitSgiPpiRead ==
    /\ gicregs.at = "read_volatile"
    /\ LET word == 4 * (gicregs.i \div 4)
       IN  gicregs' = [gicregs EXCEPT
                         !.prio = [k \in 1..4 |-> gicregs.sgi_priority[word + k - 1]],
                         !.at = "write_volatile", !.about = {gicregs.i}]
    /\ UNCHANGED <<smcVars, resolved, mmio, laterVars, queue>>

\* new_prio = (prio & !(0xFF << shift)) | (0x80 << shift);
\* write_volatile(addr as *mut u32, new_prio)
InitSgiPpiWrite ==
    /\ gicregs.at = "write_volatile"
    /\ LET i        == gicregs.i
           word     == 4 * (i \div 4)
           new_prio == [k \in 1..4 |-> IF k - 1 = i % 4 THEN 128 ELSE gicregs.prio[k]]
       IN  gicregs' = [gicregs EXCEPT
                         !.sgi_priority = [j \in 0..31 |->
                                             IF j \in word..(word + 3)
                                             THEN new_prio[j - word + 1] ELSE @[j]],
                         !.i = i + 1,
                         !.at = IF i + 1 < MaxPrimed THEN "read_volatile" ELSE "enable",
                         !.about = {i}]
    /\ UNCHANGED <<smcVars, resolved, mmio, laterVars, queue>>

\* write_volatile(sgi_base + GICR_ISENABLER0, 0xFFFFFFFF)
InitSgiPpiEnable ==
    /\ gicregs.at = "enable"
    /\ gicregs' = [gicregs EXCEPT !.sgi_enabled = 0..31, !.at = "done", !.about = 0..31]
    /\ UNCHANGED <<smcVars, resolved, mmio, laterVars, queue>>

\* priorities and SGI ids the calling cores pass
CallPriorities == {160}
CallSgiIds == {5}

NextGicRegs ==
    \/ InitSgiPpiGroup
    \/ InitSgiPpiRead
    \/ InitSgiPpiWrite
    \/ InitSgiPpiEnable
    \/ \E c \in CallingCores, id \in TrackedSpis :
          enable_spi(c, id) /\ gicregs' = AfterCall(mmio'.writes, {id})
    \/ \E c \in CallingCores, id \in TrackedSpis :
          disable_spi(c, id) /\ gicregs' = AfterCall(mmio'.writes, {id})
    \/ \E c \in CallingCores, id \in TrackedSpis, priority \in CallPriorities :
          set_spi_priority(c, id, priority) /\ gicregs' = AfterCall(mmio'.writes, {id})
    \/ \E c \in CallingCores, id \in CallSgiIds, priority \in CallPriorities :
          /\ set_sgi_priority(c, get_gicr_base_for_core(PrimingCore), id, priority)
          /\ gicregs' = AfterCall(mmio'.writes, {id})

SpecGicRegs == InitSmc /\ [][NextGicRegs]_vars

\* enable state, group and priority of interrupt id j
Entry(j) ==
    IF j < 32
    THEN <<j \in gicregs.sgi_group1, j \in gicregs.sgi_enabled, gicregs.sgi_priority[j]>>
    ELSE <<j \in gicregs.enabled, gicregs.priority[j]>>

\* C29 - enable, disable and set_priority for interrupt id i change only the
\* enable bit or the priority byte of i: in every step the enable state and
\* the priority of every id the step is not about are unchanged (so that
\* operations of different cores on distinct ids commute).
C29_PerIdFrame ==
    [][\A j \in (0..31) \cup TrackedSpis :
         j \notin gicregs'.about => Entry(j)' = Entry(j)]_vars

----------------------------------------------------------------------------
(* SGI routing, checked under SpecGic *)

\* the fields of a value written to ICC_SGI1R_EL1: target list (bits 15..0),
\* Aff1 (23..16), INTID (27..24), Aff2 (39..32), IRM (40), Aff3 (55..48)
TargetList(sgi_value) == BitsOf(W32(0, sgi_value[1] + 256 * sgi_value[2]))
RoutedAff1(sgi_value) == sgi_value[3]
RoutedIntId(sgi_value) == sgi_value[4] % 16

\* the MPIDR affinities of the cores a targeted SGI value addresses
AddressedCores(sgi_value) ==
    {<<b, RoutedAff1(sgi_value), sgi_value[5], 0, sgi_value[7], 0, 0, 0>> :
        b \in TargetList(sgi_value)}

\* C30 - send_sgi_to_core(target, sgi_id) with a target below the number of
\* cores of the platform and an sgi_id of at most 15 succeeds and writes one
\* routing value: its cluster field is target >> 3, its target list has
\* exactly the bit (target & 7) set, its interrupt id is sgi_id, it is not a
\* broadcast, and the one core it addresses is the core whose resolved index
\* is target.
C30_SgiRoutesToTarget ==
    (mmio.op = "send_sgi_to_core" /\ mmio.id <= 15
       /\ mmio.target < PLATFORM_CLUSTER_COUNT * PLATFORM_MAX_CPUS_PER_CLUSTER)
    => /\ mmio.ok
       /\ Cardinality(mmio.writes) = 1
       /\ \A w \in mmio.writes :
            /\ w.addr = "ICC_SGI1R_EL1"
            /\ RoutedAff1(w.value) = mmio.target \div (2 ^ S32_MPIDR_CPU_MASK_BITS)
            /\ TargetList(w.value) = {mmio.target % (2 ^ S32_MPIDR_CPU_MASK_BITS)}
            /\ RoutedIntId(w.value) = mmio.id
            /\ w.value[4] < 16
            /\ \A k \in 5..8 : w.value[k] = 0
            /\ {plat_core_pos_by_mpidr(a) : a \in AddressedCores(w.value)}
                 = {Ok(mmio.target)}

\* SGI 15 has been sent to the last core of the last cluster
C30_Witness ==
    /\ mmio.op = "send_sgi_to_core"
    /\ mmio.target = 31
    /\ mmio.id = 15
    /\ mmio.ok
    /\ mmio.writes = {Write("ICC_SGI1R_EL1", 64, <<128, 0, 3, 15, 0, 0, 0, 0>>)}

----------------------------------------------------------------------------
(* Dispatch of synchronous exceptions, checked under SpecTrap *)

SyncVectors ==
    {"el1_sp0_sync", "el1_sync", "lower_el_aarch64_sync", "lower_el_aarch32_sync"}

\* C31 - The synchronous handler dispatches by the exception class of the
\* syndrome: when the handler of an SMC-class trap has run it has invoked
\* handle_smc, and when the handler of an SVC-class trap has run it has
\* invoked the SVC sub-handler.  (Class 0x17 = 23 is an SMC, class 0x15 = 21
\* an SVC, both executed in AArch64 state.)
C31_SyncDispatchByClass ==
    (trap.vector \in SyncVectors /\ trap.at \in {"restore", "resumed"})
    => /\ trap.esr_ec = 23 => "handle_smc" \in trap.calls
       /\ trap.esr_ec = 21 => "handle_svc" \in trap.calls

----------------------------------------------------------------------------
(* The wait of wake_redistributor, checked under SpecBoot *)

\* core c is inside wake_redistributor
InWake(c) == boot.core[c].pc \in {"wake_redistributor", "wake_write", "wake_poll"}

\* the wake register wake_redistributor reads on core c
PolledWaker(c) == boot.GICR_WAKER[RedistributorOf(boot.core[c].gicr_base)]

\* C32 - The redistributor wake operation has no retry bound and no Timeout
\* result: it returns only by finding the children-asleep bit clear, so that
\* it never returns while the controller keeps the bit set (and returns once
\* a fair controller has cleared it).
C32_WakeReturnsOnlyWhenAwake ==
    [][\A c \in BootCores :
         (InWake(c) /\ ~InWake(c)')
           => /\ boot'.core[c].pc = "init_sgi_ppi"
              /\ ~PolledWaker(c).ChildrenAsleep]_vars

----------------------------------------------------------------------------
(* The order of init_secondary_core, checked under SpecBoot *)

\* init_sgi_ppi has run on the redistributor of core c
PrivateConfigured(c) == s32_core_pos_by_mpidr(c) \in boot.sgi_ppi

\* C33 - On a core where the interrupt-controller initialization runs,
\* Group-1 signaling is enabled only after the binary point was set, that
\* only after the priority mask was set, that only after the core's private
\* interrupts were given group, priority and enable, and that only after the
\* wake handshake of the core's redistributor has completed (the sleep
\* request is clear and the core has read children-asleep as clear).
C33_Group1EnabledLast ==
    \A c \in BootCores :
       /\ boot.core[c].igrpen1 => boot.core[c].bpr = 0
       /\ boot.core[c].bpr = 0 => boot.core[c].pmr = 240
       /\ boot.core[c].pmr = 240 => PrivateConfigured(c)
       /\ PrivateConfigured(c)
            => /\ boot.core[c].woke
               /\ boot.core[c].seen_awake
               /\ ~OwnWaker(c).ProcessorSleep

----------------------------------------------------------------------------
(* init_secondary_core on a core of any affinity value: the redistributor  *)
(* frame it selects and the registers it writes there                      *)

GICR_IGROUPR0 == \h0080
GICR_ISENABLER0 == \h0100

\* the addresses init_sgi_ppi(gicr_base) writes: the group word, the eight
\* priority words of ids 0..31, the enable word
init_sgi_ppi_addresses(gicr_base) ==
    LET sgi_base == gicr_base + GICR_SGI_OFFSET
    IN  {sgi_base + GICR_IGROUPR0}
        \cup {sgi_base + GICR_IPRIORITYR + (i \div 4) * 4 : i \in 0..31}
        \cup {sgi_base + GICR_ISENABLER0}

\* init_secondary_core on a core whose MPIDR_EL1 reads raw, with
\* GIC_INITIALIZED false: the base get_gicr_base_for_core returns and the
\* writes of init_sgi_ppi; the function returns () and has no error result
init_secondary_core(raw) ==
    /\ resolved' = [op |-> "init_secondary_core", index |-> 0, raw |-> raw,
                    result |-> plat_core_pos_by_mpidr(raw),
                    gicr_base |-> get_gicr_base_for_core(raw),
                    writes |-> init_sgi_ppi_addresses(get_gicr_base_for_core(raw)),
                    returned |-> "()"]
    /\ UNCHANGED <<smcVars, mmio, laterVars, gicregs, queue>>

NextInitAffinity == \E raw \in RawAffinities : init_secondary_core(raw)

SpecInitAffinity == InitSmc /\ [][NextInitAffinity]_vars

\* the register frames of the redistributor of core position pos
RedistributorFrames(pos) ==
    (GICR_BASE + pos * GICR_STRIDE) .. (GICR_BASE + (pos + 1) * GICR_STRIDE - 1)

\* C34 - When the executing core's affinity value is invalid, the
\* initialization selects no other core's redistributor in its place: it
\* returns the InvalidAffinity error and writes no register of the
\* redistributor of core 0.
C34_InvalidAffinityPropagated ==
    (resolved.op = "init_secondary_core" /\ ~resolved.result.ok)
    => /\ resolved.returned # "()"
       /\ \A addr \in resolved.writes : addr \notin RedistributorFrames(0)

----------------------------------------------------------------------------
(* VERSION and AFFINITY_INFO as queries, checked under SpecSmcSeq *)

\* C35 - VERSION and AFFINITY_INFO are pure queries: for any argument and in
\* every state, a VERSION call returns 0x00010001, and neither call changes
\* an entry of CORE_STATES or of CORE_BOOT_PARAMS.
C35_QueriesChangeNothing ==
    [][\A c \in Cores :
         (pc[c] = "handle_smc" /\ pc'[c] # "handle_smc"
            /\ regs[c].x0 \in {SMC_PSCI_VERSION, SMC_AFFINITY_INFO})
         => /\ pc'[c] = "idle"
            /\ regs[c].x0 = SMC_PSCI_VERSION => ev'.ret = <<1, 1>>
            /\ \A t \in Slots : CorePowerState(t)' = CorePowerState(t)
            /\ CORE_BOOT_PARAMS' = CORE_BOOT_PARAMS]_vars

\* an AFFINITY_INFO call has returned for a target whose boot parameters an
\* earlier CPU_ON stored
C35_Witness ==
    /\ ev.op = "AFFINITY_INFO"
    /\ ev.slot = 2
    /\ ev.ret = RET_CORE_OFF
    /\ CORE_BOOT_PARAMS[2] = [entry_point |-> 1, context_id |-> 17]

----------------------------------------------------------------------------
(* The result codes of handle_smc, checked under SpecSmcSeq *)

\* the outcome of the call that event e records, from its function, its
\* argument and the flag it loaded
Outcome(e) ==
    IF e.op = "UNKNOWN" THEN "NotSupported"
    ELSE IF e.op = "CPU_OFF" THEN "Success"
    ELSE IF target_cpu(e.a0) >= NUM_CORES THEN "InvalidTarget"
    ELSE IF e.op = "CPU_ON" THEN (IF e.before THEN "AlreadyOn" ELSE "Success")
    ELSE IF CORE_STATES[e.slot] THEN "On" ELSE "Off"

PowerCalls == {"CPU_ON", "CPU_OFF", "UNKNOWN"}

\* C36 - The result values are pairwise distinct per outcome: two calls that
\* end in different outcomes among success, AlreadyOn, InvalidTarget and
\* NotSupported return different values, and so do two AFFINITY_INFO calls
\* that end in different outcomes among On, Off and InvalidTarget.
C36_OutcomesDistinct ==
    [][(/\ ev' # ev
        /\ \/ ev.op \in PowerCalls /\ ev'.op \in PowerCalls
           \/ ev.op = "AFFINITY_INFO" /\ ev'.op = "AFFINITY_INFO"
        /\ Outcome(ev) # Outcome(ev)')
       => ev.ret # ev'.ret]_vars

----------------------------------------------------------------------------
(* The layout of the three SGI values, checked under SpecGic *)

\* bit 40 of a routing value, where the layout send_sgi_to_core documents
\* has the routing mode (IRM)
RoutedToAll(sgi_value) == sgi_value[6] % 2 = 1

\* C37 - For every sgi_id in [0, 16) the values send_sgi_to_core,
\* send_sgi_to_all and send_sgi_to_others write to ICC_SGI1R_EL1 carry sgi_id
\* in the same interrupt-id field (bits 27..24, where send_sgi_to_core puts
\* it) and use the same bit for the all-cores routing mode (bit 40 of that
\* layout): set by the two broadcasts, clear for the targeted call.
C37_SameSgiLayout ==
    (mmio.op \in SgiCalls /\ mmio.ok /\ mmio.id < 16)
    => \A w \in mmio.writes :
         /\ RoutedIntId(w.value) = mmio.id
         /\ RoutedToAll(w.value) <=> mmio.op \in {"send_sgi_to_all", "send_sgi_to_others"}

----------------------------------------------------------------------------
(* freertos::queue::Queue<T> used on one core by a task and by an          *)
(* interrupt handler that preempts the task whenever DAIF.I is clear.      *)
(* queue.ctx[x] is the position of context x inside send or receive;       *)
(* queue.sent and queue.received are the items of the successful calls.    *)

\* capacities passed to Queue::new, and the number of calls started
MaxCapacity == 2
MaxCalls == 5

\* TICK_COUNT stops at MaxTick
MaxTick == 1

\* the items callers pass to send, and the values of max_wait
Items == {1, 2}
Waits == {NoWait, [some |-> TRUE, ticks |-> 1]}

otherVars == <<smcVars, resolved, mmio, laterVars, gicregs>>

\* what a call can change in the queue
Contents == [length |-> queue.length, head |-> queue.head, tail |-> queue.tail,
             data |-> queue.data]

\* the interrupt handler runs to its return before the task goes on
Running(x) ==
    IF x = "isr" THEN queue.ctx["isr"].pc # "idle" ELSE queue.ctx["isr"].pc = "idle"

QueueStep(x, fields, shared) ==
    /\ queue' = [f \in DOMAIN queue |->
                   IF f = "ctx"
                   THEN [queue.ctx EXCEPT ![x] =
                           [g \in DOMAIN @ |-> IF g \in DOMAIN fields THEN fields[g] ELSE @[g]]]
                   ELSE IF f \in DOMAIN shared THEN shared[f] ELSE queue[f]]
    /\ UNCHANGED otherVars

\* Queue::new(capacity): capacity zeroed slots, length, head and tail 0
QueueNew(capacity) ==
    /\ ~queue.created
    /\ queue' = [queue EXCEPT !.created = TRUE, !.capacity = capacity,
                              !.data = [i \in 1..capacity |-> 0]]
    /\ UNCHANGED otherVars

\* a call starts in the task, or in the handler of an IRQ the core takes
\* (DAIF.I clear; the exception entry sets it)
QueueCall(x, op, item, max_wait) ==
    /\ queue.created
    /\ queue.calls < MaxCalls
    /\ queue.ctx[x].pc = "idle"
    /\ IF x = "isr" THEN ~queue.masked ELSE Running(x)
    /\ QueueStep(x, [pc |-> "enter", op |-> op, item |-> item, max_wait |-> max_wait,
                     start_tick |-> queue.TICK_COUNT, success |-> FALSE, got |-> 0,
                     timed_out |-> FALSE],
                 [calls |-> queue.calls + 1,
                  masked |-> IF x = "isr" THEN TRUE ELSE queue.masked])

\* enter_critical_section(): arch::disable_interrupts(), msr daifset, #2
enter_critical_section(x) ==
    /\ Running(x)
    /\ queue.ctx[x].pc = "enter"
    /\ QueueStep(x, [pc |-> "body", entered_masked |-> queue.masked, snap |-> Contents],
                 [masked |-> TRUE])

\* mutant of SendStore: the tail is not wrapped at the capacity
SendStore_NoWrap(x) ==
    /\ Running(x)
    /\ queue.ctx[x].pc = "body" /\ queue.ctx[x].op = "send"
    /\ IF queue.length < queue.capacity
       THEN QueueStep(x, [pc |-> "count"],
                      [data |-> [i \in DOMAIN queue.data |->
                                   IF i = (queue.tail % queue.capacity) + 1
                                   THEN queue.ctx[x].item ELSE queue.data[i]],
                       tail |-> queue.tail + 1])
       ELSE QueueStep(x, [pc |-> "exit"], NoMore)

\* send: length.load; if length < capacity { data[tail] = item;
\* tail.store((tail + 1) % capacity) ...
SendStore(x) ==
    /\ Running(x)
    /\ queue.ctx[x].pc = "body" /\ queue.ctx[x].op = "send"
    /\ IF queue.length < queue.capacity
       THEN QueueStep(x, [pc |-> "count"],
                      [data |-> [queue.data EXCEPT ![queue.tail + 1] = queue.ctx[x].item],
                       tail |-> (queue.tail + 1) % queue.capacity])
       ELSE QueueStep(x, [pc |-> "exit"], NoMore)

\* ... length.fetch_add(1); success = true }
SendCount(x) ==
    /\ Running(x)
    /\ queue.ctx[x].pc = "count" /\ queue.ctx[x].op = "send"
    /\ QueueStep(x, [pc |-> "exit", success |-> TRUE],
                 [length |-> queue.length + 1,
                  sent |-> Append(queue.sent, queue.ctx[x].item)])

\* mutant of ReceiveLoad: the head is not advanced
ReceiveLoad_KeepsHead(x) ==
    /\ Running(x)
    /\ queue.ctx[x].pc = "body" /\ queue.ctx[x].op = "receive"
    /\ IF queue.length > 0
       THEN QueueStep(x, [pc |-> "count", got |-> queue.data[queue.head + 1],
                          success |-> TRUE], NoMore)
       ELSE QueueStep(x, [pc |-> "exit"], NoMore)

\* receive: length.load; if length > 0 { item = Some(data[head]);
\* head.store((head + 1) % capacity) ...
ReceiveLoad(x) ==
    /\ Running(x)
    /\ queue.ctx[x].pc = "body" /\ queue.ctx[x].op = "receive"
    /\ IF queue.length > 0
       THEN QueueStep(x, [pc |-> "count", got |-> queue.data[queue.head + 1],
                          success |-> TRUE],
                      [head |-> (queue.head + 1) % queue.capacity])
       ELSE QueueStep(x, [pc |-> "exit"], NoMore)

\* ... length.fetch_sub(1) }
ReceiveCount(x) ==
    /\ Running(x)
    /\ queue.ctx[x].pc = "count" /\ queue.ctx[x].op = "receive"
    /\ QueueStep(x, [pc |-> "exit"],
                 [length |-> queue.length - 1,
                  received |-> Append(queue.received, queue.ctx[x].got)])

\* exit_critical_section(): arch::enable_interrupts(), msr daifclr, #2
exit_critical_section(x) ==
    /\ Running(x)
    /\ queue.ctx[x].pc = "exit"
    /\ QueueStep(x, [pc |-> IF queue.ctx[x].success THEN "return" ELSE "check"],
                 [masked |-> FALSE])

\* if let Some(wait_ticks) = max_wait { if current_tick - start_tick >=
\* wait_ticks { return false / None } }
CheckTimeout(x) ==
    /\ Running(x)
    /\ queue.ctx[x].pc = "check"
    /\ IF /\ queue.ctx[x].max_wait.some
          /\ queue.TICK_COUNT - queue.ctx[x].start_tick >= queue.ctx[x].max_wait.ticks
       THEN QueueStep(x, [pc |-> "return", timed_out |-> TRUE], NoMore)
       ELSE QueueStep(x, [pc |-> "wfi"], NoMore)

\* crate::arch::wait_for_interrupt(), and the next turn of the loop
WaitForInterrupt(x) ==
    /\ Running(x)
    /\ queue.ctx[x].pc = "wfi"
    /\ QueueStep(x, [pc |-> "enter"], NoMore)

\* the call returns; the handler's exception return restores DAIF.I of the
\* task it interrupted, which was clear
QueueReturn(x) ==
    /\ Running(x)
    /\ queue.ctx[x].pc = "return"
    /\ QueueStep(x, [pc |-> "idle", snap |-> <<>>, entered_masked |-> FALSE],
                 [masked |-> IF x = "isr" THEN FALSE ELSE queue.masked])

\* the timer interrupt: TICK_COUNT.fetch_add(1)
Tick ==
    /\ ~queue.masked
    /\ queue.TICK_COUNT < MaxTick
    /\ queue' = [queue EXCEPT !.TICK_COUNT = @ + 1]
    /\ UNCHANGED otherVars

NextQueue ==
    \/ \E capacity \in 1..MaxCapacity : QueueNew(capacity)
    \/ \E x \in Contexts, item \in Items, max_wait \in Waits :
          QueueCall(x, "send", item, max_wait)
    \/ \E x \in Contexts, max_wait \in Waits : QueueCall(x, "receive", 0, max_wait)
    \/ \E x \in Contexts : enter_critical_section(x)
    \/ \E x \in Contexts : SendStore(x)
    \/ \E x \in Contexts : SendCount(x)
    \/ \E x \in Contexts : ReceiveLoad(x)
    \/ \E x \in Contexts : ReceiveCount(x)
    \/ \E x \in Contexts : exit_critical_section(x)
    \/ \E x \in Contexts : CheckTimeout(x)
    \/ \E x \in Contexts : WaitForInterrupt(x)
    \/ \E x \in Contexts : QueueReturn(x)
    \/ Tick

SpecQueue == InitSmc /\ [][NextQueue]_vars

\* C38 - Critical sections restore the interrupt mask: when
\* exit_critical_section returns, DAIF.I is what it was before the matching
\* enter_critical_section, so that a section entered with IRQs masked leaves
\* them masked.
C38_CriticalSectionRestoresMask ==
    [][\A x \in Contexts :
         (queue.ctx[x].pc = "exit" /\ queue'.ctx[x].pc # "exit")
         => queue'.masked = queue.ctx[x].entered_masked]_vars

\* C39 - Queue invariant: for a queue of capacity >= 1, 0 <= length <=
\* capacity and head, tail < capacity in every state, and tail = (head +
\* length) mod capacity whenever no call is between its pointer update and
\* its length update; a turn of send that finds the queue full and a turn of
\* receive that finds it empty (the only turns of a call that times out)
\* leave length, head, tail and the stored items as they were.
C39_QueueInvariant ==
    queue.created
    => /\ queue.capacity >= 1
       /\ queue.length \in 0..queue.capacity
       /\ queue.head \in 0..(queue.capacity - 1)
       /\ queue.tail \in 0..(queue.capacity - 1)
       /\ (\A x \in Contexts : queue.ctx[x].pc # "count")
            => queue.tail = (queue.head + queue.length) % queue.capacity
       /\ \A x \in Contexts :
            (queue.ctx[x].pc = "exit" /\ ~queue.ctx[x].success)
            => /\ Contents = queue.ctx[x].snap
               /\ queue.ctx[x].op = "send" => queue.length = queue.capacity
               /\ queue.ctx[x].op = "receive" => queue.length = 0

\* a send has timed out on a full queue of capacity 2 whose tail has wrapped
C39_Witness ==
    /\ queue.capacity = 2
    /\ queue.length = 2
    /\ queue.tail = 0
    /\ \E x \in Contexts :
          /\ queue.ctx[x].pc = "return"
          /\ queue.ctx[x].op = "send"
          /\ queue.ctx[x].timed_out

\* C40 - Queue FIFO order: the k-th successful receive returns the item of
\* the k-th successful send, for every k, across wrap-around of head and
\* tail.
C40_FifoOrder ==
    /\ Len(queue.received) <= Len(queue.sent)
    /\ \A k \in 1..Len(queue.received) : queue.received[k] = queue.sent[k]

\* in a queue of capacity 2 the second receive has returned the item of the
\* second send, after the tail and then the head wrapped to 0
C40_Witness ==
    /\ queue.capacity = 2
    /\ queue.sent = <<1, 2, 1>>
    /\ queue.received = <<1, 2>>
    /\ queue.head = 0
    /\ queue.tail = 1
    /\ \A x \in Contexts : queue.ctx[x].pc = "idle"

====
